---- MODULE Spec2Model ----
(***************************************************************************)
(* A model of mldb: the lazy, memoizing computation graph                  *)
(* (src/mldb/compgraph.py), its storage backends (src/mldb/backends) and   *)
(* the file lock that guards "compute and persist", in both of its         *)
(* implementations: the flock based one of src/mldb/locker.py and the      *)
(* O_EXCL marker of src/locker.py.                                         *)
(***************************************************************************)
EXTENDS Integers, Sequences, FiniteSets, TLC

VARIABLES
    locker,       \* which FileLock implementation is in use: "flock" | "excl"
    marker,       \* the file system: marker path -> inode at that path (0: no such file)
    flockOwner,   \* the kernel's flock table: inode -> FileLock instance holding LOCK_EX
    createdBy,    \* history: inode -> the FileLock instance whose open() created the file
    fl,           \* the FileLock instances: [is_locked, lock_file, lock_filename]
    lpc,          \* lock clients: where each is inside acquire()/release()
    lres,         \* lock clients: the outcome of the last acquire()/release()
    objs,         \* every NodeWrapper object made so far, in order of creation
    nodes,        \* graph.nodes: node name -> index of its object in objs
    backends,     \* graph.backends: backend name -> Backend
    default_backend, \* graph.default_backend
    gres,         \* the outcome of the last call on the graph
    store,        \* the storage location: artifact path -> stored value
    cache,        \* per process: compute_or_load_evaluation.cache
    stack,        \* per process: the active compute_or_load_evaluation calls
    trace,        \* per process: its evaluate() calls so far, with what each did
    mode          \* "seq": processes run one after the other; "conc": interleaved

lockVars == <<locker, marker, flockOwner, createdBy, fl, lpc, lres>>
graphVars == <<objs, nodes, backends, default_backend, gres>>
evalVars == <<store, cache, stack, trace, mode>>
vars == <<lockVars, graphVars, evalVars>>

----------------------------------------------------------------------------
(* Paths.  A file name is the sequence of its dot separated parts, a path  *)
(* is a directory and a file name.                                         *)

NoInode == 0
NoInst == <<>>
NoPath == [dir |-> "", parts |-> <<>>]

\* pathlib's Path.with_suffix: the last suffix is replaced, or the suffix is
\* appended to a name that has none.
WithSuffix(path, suffix) ==
    IF Len(path.parts) > 1
    THEN [path EXCEPT !.parts = SubSeq(@, 1, Len(@) - 1) \o <<suffix>>]
    ELSE [path EXCEPT !.parts = @ \o <<suffix>>]

\* FileLock.__init__ of src/mldb/locker.py
LockFilenameFlock(protected_file_path) == WithSuffix(protected_file_path, "lock")

\* FileLock.__init__ of src/locker.py: f"{protected_file_path}.lock"
LockFilenameExcl(protected_file_path) ==
    [protected_file_path EXCEPT !.parts = @ \o <<"lock">>]

LockFilename(impl, protected_file_path) ==
    IF impl = "flock" THEN LockFilenameFlock(protected_file_path)
    ELSE LockFilenameExcl(protected_file_path)

\* The one directory that is not there; nothing in the lock makes directories.
MissingDir == "gone"

\* A check that finds every directory.
AnyParentExists(path) == TRUE

\* open() and os.open() need the directory of the file.
ParentExists(path) == path.dir # MissingDir

\* A FileLock as its constructor leaves it.
NewFileLock(impl, protected_file_path) ==
    [is_locked |-> FALSE, lock_file |-> NoInode,
     lock_filename |-> LockFilename(impl, protected_file_path)]

NoFileLock == [is_locked |-> FALSE, lock_file |-> NoInode, lock_filename |-> NoPath]

----------------------------------------------------------------------------
(* The file system and the lock, as functions of a world                   *)
(* W = [marker, flockOwner, createdBy, fl].                                *)

World == [marker |-> marker, flockOwner |-> flockOwner, createdBy |-> createdBy, fl |-> fl]

InodesInUse(W) ==
    ({W.marker[p] : p \in DOMAIN W.marker}
        \cup {W.fl[i].lock_file : i \in DOMAIN W.fl}) \ {NoInode}

\* An inode that is neither at a path nor open is gone, and with it its lock
\* and its history.
Reclaim(W) ==
    [W EXCEPT !.flockOwner = [n \in InodesInUse(W) \cap DOMAIN W.flockOwner |->
                                W.flockOwner[n]],
              !.createdBy = [n \in InodesInUse(W) \cap DOMAIN W.createdBy |->
                                W.createdBy[n]]]

SetWorld(W) ==
    \E R \in {Reclaim(W)} :
        /\ marker' = R.marker
        /\ flockOwner' = R.flockOwner
        /\ createdBy' = R.createdBy
        /\ fl' = R.fl

FreshInode(W) ==
    CHOOSE n \in 1..(Cardinality(InodesInUse(W)) + 1) : n \notin InodesInUse(W)

FlockOf(W, inode) ==
    IF inode \in DOMAIN W.flockOwner THEN W.flockOwner[inode] ELSE NoInst

\* A file is created at path p, by instance i: a new inode, locked by nobody.
CreateFile(W, p, i) ==
    LET n == FreshInode(W) IN
    [W EXCEPT !.marker[p] = n,
              !.flockOwner = [m \in DOMAIN W.flockOwner \cup {n} |->
                                IF m = n THEN NoInst ELSE W.flockOwner[m]],
              !.createdBy = [m \in DOMAIN W.createdBy \cup {n} |->
                                IF m = n THEN i ELSE W.createdBy[m]]]

\* A close after which the flock is still held.
KeepFlockOnClose(W, i) == W

\* Closing an open file drops the flock taken through it.
CloseFile(W, i) ==
    LET f == W.fl[i].lock_file IN
    [W EXCEPT !.flockOwner =
        [n \in DOMAIN W.flockOwner |->
            IF n = f /\ W.flockOwner[n] = i THEN NoInst ELSE W.flockOwner[n]]]

\* acquire(), first statement: self.lock_file = open(self.lock_filename, "w").
\* The file is created when it is not there; the file object the instance held
\* before is dropped, which closes it.
OpenMarker(W, i) ==
    LET p == W.fl[i].lock_filename
        C == CloseFile(W, i)
        C0 == [C EXCEPT !.fl[i].lock_file = NoInode]
        C1 == IF C0.marker[p] # NoInode THEN C0 ELSE CreateFile(C0, p, i)
    IN [C1 EXCEPT !.fl[i].lock_file = C1.marker[p]]

\* A flock that is granted whoever holds the lock.
AlwaysFree(W, i) == TRUE

\* fcntl.flock(self.lock_file, LOCK_EX | LOCK_NB) succeeds unless another open
\* file of the same inode holds the lock.
FlockFree(W, i) == FlockOf(W, W.fl[i].lock_file) \in {NoInst, i}

\* acquire(), second statement and the rest: the lock is taken and is_locked
\* set, or FileLockExistsException is raised.
TakeFlock(W, i) ==
    IF FlockFree(W, i)
    THEN [w |-> [W EXCEPT !.flockOwner[W.fl[i].lock_file] = i,
                          !.fl[i].is_locked = TRUE],
          raised |-> "none"]
    ELSE [w |-> W, raised |-> "FileLockExistsException"]

\* release(), up to the unlink: is_locked = False; flock(self.lock_file, LOCK_UN).
\* An instance that never opened a file passes None to flock.
DropFlock(W, i) ==
    IF W.fl[i].lock_file = NoInode
    THEN [w |-> [W EXCEPT !.fl[i].is_locked = FALSE], raised |-> "TypeError"]
    ELSE [w |-> [W EXCEPT !.fl[i].is_locked = FALSE,
                          !.flockOwner[W.fl[i].lock_file] =
                              IF @ = i THEN NoInst ELSE @],
          raised |-> "none"]

\* A release() that leaves the marker where it is.
KeepMarker(W, i) == W

\* release(), the unlink: whatever file is at the path is removed, a missing
\* file is ignored.
UnlinkMarker(W, i) == [W EXCEPT !.marker[W.fl[i].lock_filename] = NoInode]

\* src/locker.py, acquire(): os.open(lockfile, O_CREAT | O_EXCL | O_RDWR), the
\* descriptor is closed at once.
AcquireExcl(W, i) ==
    LET p == W.fl[i].lock_filename IN
    IF ~ParentExists(p)
    THEN [w |-> W, raised |-> "FileNotFoundError"]
    ELSE IF W.marker[p] # NoInode
    THEN [w |-> W, raised |-> "FileLockExistsException"]
    ELSE [w |-> [CreateFile(W, p, i) EXCEPT !.fl[i].is_locked = TRUE],
          raised |-> "none"]

\* src/locker.py, release(): is_locked = False; os.unlink(lockfile).
ReleaseExcl(W, i) ==
    LET p == W.fl[i].lock_filename
        U == [W EXCEPT !.fl[i].is_locked = FALSE] IN
    IF W.marker[p] = NoInode
    THEN [w |-> U, raised |-> "FileNotFoundError"]
    ELSE [w |-> [U EXCEPT !.marker[p] = NoInode], raised |-> "none"]

\* acquire() as one call.  An open() that raises assigns nothing.
Acquire(impl, W, i) ==
    IF impl = "flock"
    THEN IF ParentExists(W.fl[i].lock_filename)
         THEN TakeFlock(OpenMarker(W, i), i)
         ELSE [w |-> W, raised |-> "FileNotFoundError"]
    ELSE AcquireExcl(W, i)

\* release() as one call.
Release(impl, W, i) ==
    IF impl = "flock"
    THEN LET d == DropFlock(W, i) IN
         IF d.raised # "none" THEN d
         ELSE [w |-> UnlinkMarker(d.w, i), raised |-> "none"]
    ELSE ReleaseExcl(W, i)

----------------------------------------------------------------------------
(* Backends (src/mldb/backends).  A Backend makes, for a node name, the    *)
(* interface to that node's artifact.                                      *)

\* VolatileBackend(): Backend(interface=VolatileInterface, cache_data=False)
VolatileBackend ==
    [kind |-> "volatile", cache_data |-> FALSE, dir |-> "/tmp", ext |-> ""]

\* PickleBackend(path): FileSystemBase(interface=PickleInterface, path, ext="pkl")
PickleBackend(path) ==
    [kind |-> "pickle", cache_data |-> TRUE, dir |-> path, ext |-> "pkl"]

\* PNGBackend(path): MatPlotLibBackend(path, ext="png")
PNGBackend(path) ==
    [kind |-> "matplotlib", cache_data |-> TRUE, dir |-> path, ext |-> "png"]

\* Backend.get(name).path: VolatileInterface uses /tmp/<name>, FileSystemBase.get
\* joins its directory with "<name>.<ext>".
ArtifactPath(backend, name) ==
    IF backend.kind = "volatile"
    THEN [dir |-> backend.dir, parts |-> name]
    ELSE [dir |-> backend.dir, parts |-> name \o <<backend.ext>>]

----------------------------------------------------------------------------
(* Values.  A value is what a function returned: who made it and of what   *)
(* type it is; None and True are Python's.                                 *)

None == [func |-> "", type |-> "None"]
PyTrue == [func |-> "", type |-> "True"]
NoFile == [func |-> "", type |-> "no file"]

\* What a function may return: an object, None, or (a function that draws, which
\* is what a matplotlib backend is for) a Figure.
ReturnTypes(backend) ==
    IF backend.kind = "matplotlib" THEN {"object", "Figure", "None"}
    ELSE {"object", "None"}

ReturnValue(func, type) == IF type = "None" THEN None ELSE [func |-> func, type |-> type]

(* Exceptions: the type and the node object whose evaluation raised it.    *)
NoExc == <<"", 0>>
Raised(type, origin) == <<type, origin>>

----------------------------------------------------------------------------
(* Arguments.  A keyword argument is a NodeWrapper, a literal, or a        *)
(* sequence of arguments; once resolved, a NodeWrapper is its value.       *)

NodeArg(id) == [t |-> "node", id |-> id, v |-> None, elems |-> <<>>]
Literal(v) == [t |-> "literal", id |-> 0, v |-> v, elems |-> <<>>]
SeqArg(elems) == [t |-> "sequence", id |-> 0, v |-> None, elems |-> elems]
Resolved(v) == [t |-> "value", id |-> 0, v |-> v, elems |-> <<>>]

\* isinstance(value, NodeWrapper)
IsNodeWrapper(arg) == arg.t = "node"

----------------------------------------------------------------------------
(* The graph (ComputationGraph of src/mldb/compgraph.py) as a value        *)
(* G = [objs, nodes, backends, default_backend].                           *)

Graph == [objs |-> objs, nodes |-> nodes, backends |-> backends,
          default_backend |-> default_backend]

SetGraphInit(G) ==
    /\ objs = G.objs
    /\ nodes = G.nodes
    /\ backends = G.backends
    /\ default_backend = G.default_backend

SetGraph(G) ==
    /\ objs' = G.objs
    /\ nodes' = G.nodes
    /\ backends' = G.backends
    /\ default_backend' = G.default_backend

NoName == <<>>
NoBackendArg == ""

\* str(uuid4()): a name no node has yet.
Uuid(G) == <<"uuid" \o ToString(Len(G.objs) + 1)>>

\* ComputationGraph.__init__: add_backend("none", VolatileBackend(), make_default=True)
NewGraph ==
    [objs |-> <<>>, nodes |-> <<>>,
     backends |-> [b \in {"none"} |-> VolatileBackend],
     default_backend |-> "none"]

\* A lookup that finds no name, whatever is registered.
NameNeverTaken(G, name) == FALSE

\* if name in self.nodes
NameTaken(G, name) == name \in DOMAIN G.nodes

\* self.nodes[name] = node
Register(G, name, id) ==
    [G EXCEPT !.nodes = [k \in DOMAIN G.nodes \cup {name} |->
                            IF k = name THEN id ELSE G.nodes[k]]]

\* A choice of backend that is the volatile one whatever is asked for.
AlwaysNoneBackend(G, bname, use_cache) == G.backends["none"]

\* backend = self.backends[...]; if not cache: backend = self.backends["none"]
BackendFor(G, bname, use_cache) ==
    IF use_cache THEN G.backends[bname] ELSE G.backends["none"]

\* ComputationGraph.make_node(func, name, backend, kwargs, cache, collect)
make_node(G, func, name, backend, kwargs, use_cache, collect) ==
    LET nm == IF name = NoName THEN Uuid(G) ELSE name
        bname == IF backend = NoBackendArg THEN G.default_backend ELSE backend
        id == Len(G.objs) + 1
    IN
    IF ~func.callable
    THEN [g |-> G, raised |-> "AssertionError", ret |-> 0]
    ELSE IF NameTaken(G, nm)
    THEN [g |-> G, raised |-> "KeyError", ret |-> 0]
    ELSE IF bname \notin DOMAIN G.backends
    THEN [g |-> G, raised |-> "KeyError", ret |-> 0]
    ELSE LET b == BackendFor(G, bname, use_cache)
             node == [name |-> nm, func |-> func.name, kwargs |-> kwargs, backend |-> b]
             G1 == [G EXCEPT !.objs = Append(@, node)]
         IN [g |-> IF collect THEN Register(G1, nm, id) ELSE G1,
             raised |-> "none", ret |-> id]

\* A backend name that is not a str.
NotAString == "<not a str>"

\* ComputationGraph.set_default_backend(backend_name)
set_default_backend(G, backend_name) ==
    IF backend_name = NotAString
    THEN [g |-> G, raised |-> "TypeError"]
    ELSE IF backend_name \notin DOMAIN G.backends
    THEN [g |-> G, raised |-> "KeyError"]
    ELSE [g |-> [G EXCEPT !.default_backend = backend_name], raised |-> "none"]

\* A lookup that finds no backend name, whatever is registered.
BackendNeverTaken(G, name) == FALSE

\* if name in self.backends
BackendTaken(G, name) == name \in DOMAIN G.backends

\* ComputationGraph.add_backend(name, backend, make_default)
add_backend(G, name, backend, make_default) ==
    IF name = NotAString
    THEN [g |-> G, raised |-> "TypeError"]
    ELSE IF BackendTaken(G, name)
    THEN [g |-> G, raised |-> "KeyError"]
    ELSE LET G1 == [G EXCEPT !.backends =
                        [b \in DOMAIN G.backends \cup {name} |->
                            IF b = name THEN backend ELSE G.backends[b]]]
         IN IF make_default THEN set_default_backend(G1, name)
            ELSE [g |-> G1, raised |-> "none"]

\* A callable / a value that is not callable, as make_node's func argument.
Fn(name) == [name |-> name, callable |-> TRUE]
NotCallable == [name |-> "", callable |-> FALSE]


----------------------------------------------------------------------------
(* Initial values of the parts a specification does not use.               *)

NoCall == [op |-> "none", raised |-> "none", ret |-> 0, name |-> NoName,
           callable |-> FALSE, dup |-> FALSE, backend |-> NoBackendArg,
           flag |-> FALSE]

NoGraphInit ==
    /\ objs = <<>>
    /\ nodes = <<>>
    /\ backends = NewGraph.backends
    /\ default_backend = NewGraph.default_backend
    /\ gres = NoCall

NoEvalInit ==
    /\ store = <<>>
    /\ cache = <<>>
    /\ stack = <<>>
    /\ trace = <<>>
    /\ mode = "seq"

NoClientsInit ==
    /\ lpc = <<>>
    /\ lres = <<>>

----------------------------------------------------------------------------
(* The lock by itself: FileLock instances of several processes on one      *)
(* artifact path.  Each client owns one instance and uses it as the with   *)
(* statement does: acquire() when it does not hold the lock, release()     *)
(* only after its own successful acquire().                                *)

NumLockClients == 3
LockClients == {<<"client", k>> : k \in 1..NumLockClients}
Lockers == {"flock", "excl"}

\* The artifact the clients contend for: <dir>/node.json
TargetPath == [dir |-> "store", parts |-> <<"node", "json">>]

NoResult == [op |-> "none", raised |-> "none", heldByOther |-> FALSE, blocking |-> FALSE]

Holders == {c \in DOMAIN fl : fl[c].is_locked}

HeldByOther(c) == \E d \in DOMAIN fl : d # c /\ fl[d].is_locked

LockInit ==
    /\ locker \in Lockers
    /\ marker = [p \in {LockFilename(locker, TargetPath)} |-> NoInode]
    /\ flockOwner = <<>>
    /\ createdBy = <<>>
    /\ fl = [c \in LockClients |-> NewFileLock(locker, TargetPath)]
    /\ lpc = [c \in LockClients |-> "idle"]
    /\ lres = [c \in LockClients |-> NoResult]
    /\ NoGraphInit
    /\ NoEvalInit

\* acquire() of src/mldb/locker.py, line 56: the marker is opened.
LockOpen(c) ==
    /\ locker = "flock"
    /\ lpc[c] = "idle"
    /\ ~fl[c].is_locked
    /\ IF ParentExists(fl[c].lock_filename)
       THEN /\ SetWorld(OpenMarker(World, c))
            /\ lpc' = [lpc EXCEPT ![c] = "opened"]
            /\ lres' = lres
       ELSE /\ SetWorld(World)
            /\ lpc' = lpc
            /\ lres' = [lres EXCEPT ![c] = [op |-> "acquire",
                                            raised |-> "FileNotFoundError",
                                            heldByOther |-> HeldByOther(c),
                                            blocking |-> TRUE]]
    /\ UNCHANGED <<locker, graphVars, evalVars>>

\* acquire() of src/mldb/locker.py, lines 57-63: the flock is tried.
LockFlock(c) ==
    /\ lpc[c] = "opened"
    /\ LET r == TakeFlock(World, c) IN
        /\ SetWorld(r.w)
        /\ lres' = [lres EXCEPT ![c] = [op |-> "acquire", raised |-> r.raised,
                                        heldByOther |-> HeldByOther(c),
                                        blocking |-> TRUE]]
    /\ lpc' = [lpc EXCEPT ![c] = "idle"]
    /\ UNCHANGED <<locker, graphVars, evalVars>>

\* release() of src/mldb/locker.py, lines 70-71: the flock is dropped.
LockDrop(c) ==
    /\ locker = "flock"
    /\ lpc[c] = "idle"
    /\ fl[c].is_locked
    /\ SetWorld(DropFlock(World, c).w)
    /\ lpc' = [lpc EXCEPT ![c] = "unlocked"]
    /\ UNCHANGED <<locker, lres, graphVars, evalVars>>

\* release() of src/mldb/locker.py, lines 72-75: the marker is unlinked.
LockUnlink(c) ==
    /\ lpc[c] = "unlocked"
    /\ SetWorld(UnlinkMarker(World, c))
    /\ lpc' = [lpc EXCEPT ![c] = "idle"]
    /\ lres' = [lres EXCEPT ![c] = [op |-> "release", raised |-> "none",
                                    heldByOther |-> HeldByOther(c),
                                    blocking |-> FALSE]]
    /\ UNCHANGED <<locker, graphVars, evalVars>>

\* A whole acquire(blocking) call, of either implementation.
LockAcquire(c, blocking) ==
    /\ lpc[c] = "idle"
    /\ ~fl[c].is_locked
    /\ LET r == Acquire(locker, World, c) IN
        /\ SetWorld(r.w)
        /\ lres' = [lres EXCEPT ![c] = [op |-> "acquire", raised |-> r.raised,
                                        heldByOther |-> HeldByOther(c),
                                        blocking |-> blocking]]
    /\ UNCHANGED <<locker, lpc, graphVars, evalVars>>

\* A whole release() call, of either implementation, by the holder.
LockRelease(c) ==
    /\ lpc[c] = "idle"
    /\ fl[c].is_locked
    /\ LET r == Release(locker, World, c) IN
        /\ SetWorld(r.w)
        /\ lres' = [lres EXCEPT ![c] = [op |-> "release", raised |-> r.raised,
                                        heldByOther |-> HeldByOther(c),
                                        blocking |-> FALSE]]
    /\ UNCHANGED <<locker, lpc, graphVars, evalVars>>

\* acquire() and release() of src/locker.py are one system call each.
LockAcquireExcl(c) == locker = "excl" /\ LockAcquire(c, TRUE)
LockReleaseExcl(c) == locker = "excl" /\ LockRelease(c)

\* Every interleaving of the statements of acquire() and release().
LockStepsNext ==
    \E c \in LockClients :
        \/ LockOpen(c)
        \/ LockFlock(c)
        \/ LockDrop(c)
        \/ LockUnlink(c)
        \/ LockAcquireExcl(c)
        \/ LockReleaseExcl(c)

\* Whole calls, one after the other.
LockCallsNext ==
    \E c \in LockClients :
        \/ \E blocking \in BOOLEAN : LockAcquire(c, blocking)
        \/ LockRelease(c)


----------------------------------------------------------------------------
(* Storage: what the interface of a node's backend does on the artifact.   *)

InterfacePath(obj) == ArtifactPath(obj.backend, obj.name)

\* A backend that finds no artifact, whatever is stored.
NothingExists(st, obj) == FALSE

\* BackendInterface.exists(): VolatileInterface answers False, FileSystemInterface
\* tests the file.
Exists(st, obj) ==
    /\ obj.backend.kind # "volatile"
    /\ st[InterfacePath(obj)] # NoFile

\* A validation that takes everything for a Figure.
AnyFigure(data) == TRUE

\* validate_dtype(fig, Figure) of MatPlotLibInterface.save
ValidFigure(data) == data.type = "Figure"

\* A save() that writes the data whatever the backend is.
WriteAnyway(st, obj, data) ==
    [st |-> [st EXCEPT ![InterfacePath(obj)] = data], raised |-> "none"]

\* BackendInterface.save(data): VolatileInterface passes, PickleInterface dumps
\* the object, MatPlotLibInterface accepts a Figure only and writes its image.
Save(st, obj, data) ==
    CASE obj.backend.kind = "volatile" -> [st |-> st, raised |-> "none"]
      [] obj.backend.kind = "pickle" ->
            [st |-> [st EXCEPT ![InterfacePath(obj)] = data], raised |-> "none"]
      [] obj.backend.kind = "matplotlib" ->
            IF ValidFigure(data)
            THEN [st |-> [st EXCEPT ![InterfacePath(obj)] = data], raised |-> "none"]
            ELSE [st |-> st, raised |-> "TypeError"]

\* BackendInterface.load(): PickleInterface opens the file and gives the object
\* back, MatPlotLibInterface answers True, VolatileInterface has nothing to load.
\* A load() that reads nothing.
LoadsNothing(st, obj) == [data |-> None, raised |-> "none"]

Load(st, obj) ==
    CASE obj.backend.kind = "volatile" -> [data |-> None, raised |-> "NotImplementedError"]
      [] obj.backend.kind = "pickle" ->
            IF st[InterfacePath(obj)] = NoFile
            THEN [data |-> None, raised |-> "FileNotFoundError"]
            ELSE [data |-> st[InterfacePath(obj)], raised |-> "none"]
      [] obj.backend.kind = "matplotlib" -> [data |-> PyTrue, raised |-> "none"]

\* A cache that takes whatever it is given.
InsertAnyway(c, obj, data) ==
    [k \in DOMAIN c \cup {obj.name} |-> IF k = obj.name THEN data ELSE c[k]]

\* cache_data = hasattr(backend, "cache_data") and backend.cache_data;
\* if cache_data and data is not None: cache[name] = data
CacheInsert(c, obj, data) ==
    IF obj.backend.cache_data /\ data # None
    THEN [k \in DOMAIN c \cup {obj.name} |-> IF k = obj.name THEN data ELSE c[k]]
    ELSE c

----------------------------------------------------------------------------
(* Evaluation: compute_or_load_evaluation, one frame per active call.      *)

Procs == {"p1", "p2"}
MaxCalls == 2
MaxConcCalls == 2
MaxRaceCalls == 3
MaxCycleCalls == 1

ObjIds == 1..Len(objs)
Top(p) == stack[p][Len(stack[p])]
Inst(p) == <<p, Len(stack[p])>>
Idle(p) == stack[p] = <<>>
Pc(p) == IF Idle(p) THEN "idle" ELSE Top(p).pc
TotalCalls == Len(trace["p1"]) + Len(trace["p2"])

NewFrame(n) ==
    [node |-> n, pc |-> "enter", todo |-> 0,
     inputs |-> [i \in 1..Len(objs[n].kwargs) |-> objs[n].kwargs[i].value],
     data |-> None, exc |-> NoExc]

Zero == [n \in ObjIds |-> 0]

\* The record of one evaluate() of the user: the how-manieth call of all it is,
\* how it ended, and per node object how often its function was invoked, with
\* which inputs last, whether it raised, and how often save() was called.
NewCall(n) ==
    [node |-> n, seq |-> TotalCalls + 1, status |-> "running", value |-> None,
     exc |-> NoExc, ran |-> Zero, saves |-> Zero, failed |-> {},
     args |-> [k \in ObjIds |-> <<>>]]

\* A loop over kwargs.items() that finds no NodeWrapper.
NoNodeArg(frame) == 0

\* The next keyword, in the order of kwargs.items(), whose value is a NodeWrapper.
NextNodeArg(frame) ==
    LET kw == objs[frame.node].kwargs
        S == {i \in (frame.todo + 1)..Len(kw) : IsNodeWrapper(kw[i].value)}
    IN IF S = {} THEN 0 ELSE CHOOSE i \in S : \A j \in S : i <= j

SetTop(p, frame) == [stack EXCEPT ![p][Len(stack[p])] = frame]
SetCall(p, call) == [trace EXCEPT ![p][Len(trace[p])] = call]
ThisCall(p) == trace[p][Len(trace[p])]

\* An inputs that is the kwargs of the node itself.
SameDict(frame) == TRUE

\* Line 389, inputs = kwargs.copy(): what is assigned to inputs[key] is not
\* assigned to the kwargs of the node.
InputsAreKwargs(frame) == FALSE

\* The call of the top frame ends, with a value or with an exception: the frame
\* goes, and its caller (the evaluate() of the user, or the frame that resolves
\* its arguments inside its with block) gets the one or the other.
Finish(p, data, exc) ==
    LET rest == SubSeq(stack[p], 1, Len(stack[p]) - 1) IN
    IF rest = <<>>
    THEN /\ stack' = [stack EXCEPT ![p] = <<>>]
         /\ trace' = SetCall(p, [ThisCall(p) EXCEPT
                !.status = IF exc = NoExc THEN "returned" ELSE "raised",
                !.value = data, !.exc = exc])
         /\ objs' = objs
    ELSE LET parent == rest[Len(rest)]
             resumed == IF exc = NoExc
                        THEN [parent EXCEPT !.inputs[parent.todo] = Resolved(data)]
                        ELSE [parent EXCEPT !.exc = exc, !.pc = "release"]
         IN /\ stack' = [stack EXCEPT ![p] = [rest EXCEPT ![Len(rest)] = resumed]]
            /\ trace' = trace
            /\ objs' = IF exc = NoExc /\ InputsAreKwargs(parent)
                       THEN [objs EXCEPT ![parent.node].kwargs[parent.todo].value =
                                            Resolved(data)]
                       ELSE objs

\* node.evaluate(), called by the user.  The processes are alike: the one
\* called p1 is the one that makes the first call.
Evaluate(p, n) ==
    /\ Idle(p)
    /\ p = "p2" => trace["p1"] # <<>>
    /\ CASE mode = "seq" -> TotalCalls < MaxCalls /\ \A q \in Procs : Idle(q)
         [] mode = "conc" -> TotalCalls < MaxConcCalls
         [] mode = "race" -> TotalCalls < MaxRaceCalls
         [] OTHER -> TotalCalls < MaxCycleCalls /\ \A q \in Procs : Idle(q)
    /\ stack' = [stack EXCEPT ![p] = <<NewFrame(n)>>]
    /\ trace' = [trace EXCEPT ![p] = Append(@, NewCall(n))]
    /\ UNCHANGED <<lockVars, graphVars, store, cache, mode>>

\* A cache in which nothing is found.
NeverCached(c, obj) == FALSE

\* if name in compute_or_load_evaluation.cache
Cached(c, obj) == obj.name \in DOMAIN c

\* Lines 374-385: the cache is asked, then the backend whether the artifact exists.
Enter(p) ==
    /\ Pc(p) = "enter"
    /\ LET obj == objs[Top(p).node] IN
        IF Cached(cache[p], obj)
        THEN Finish(p, cache[p][obj.name], NoExc)
        ELSE /\ stack' = SetTop(p, [Top(p) EXCEPT !.pc =
                    IF Exists(store, obj) THEN "load" ELSE "lock"])
             /\ trace' = trace
             /\ objs' = objs
    /\ UNCHANGED <<lockVars, nodes, backends, default_backend, gres, store, cache, mode>>

\* Line 387, entering the with block: backend_interface.lock() makes the
\* FileLock and __enter__ calls acquire().  With flock this is the open of the
\* marker; with O_EXCL it is the whole acquire().
EnterLock(p) ==
    /\ Pc(p) = "lock"
    /\ LET obj == objs[Top(p).node]
           W0 == [World EXCEPT !.fl[Inst(p)] = NewFileLock(locker, InterfacePath(obj))]
       IN IF locker = "flock"
          THEN /\ \E opened \in {OpenMarker(W0, Inst(p))} : SetWorld(opened)
               /\ stack' = SetTop(p, [Top(p) EXCEPT !.pc = "flock"])
               /\ trace' = trace
               /\ objs' = objs
          ELSE \E r \in {AcquireExcl(W0, Inst(p))} :
               IF r.raised = "none"
               THEN /\ SetWorld(r.w)
                    /\ stack' = SetTop(p, [Top(p) EXCEPT !.pc = "args"])
                    /\ trace' = trace
                    /\ objs' = objs
               ELSE /\ SetWorld(World)
                    /\ Finish(p, None, Raised(r.raised, Top(p).node))
    /\ UNCHANGED <<locker, lpc, lres, nodes, backends, default_backend, gres, store, cache, mode>>

\* The FileLock of the frame is garbage: its file is closed.
Discard(W, i) == [CloseFile(W, i) EXCEPT !.fl[i] = NoFileLock]

\* acquire() of src/mldb/locker.py, the flock: the with block is entered, or
\* FileLockExistsException leaves the call.
EnterFlock(p) ==
    /\ Pc(p) = "flock"
    /\ LET r == TakeFlock(World, Inst(p)) IN
        IF r.raised = "none"
        THEN /\ SetWorld(r.w)
             /\ stack' = SetTop(p, [Top(p) EXCEPT !.pc = "args"])
             /\ trace' = trace
             /\ objs' = objs
        ELSE /\ SetWorld(Discard(r.w, Inst(p)))
             /\ Finish(p, None, Raised(r.raised, Top(p).node))
    /\ UNCHANGED <<locker, lpc, lres, nodes, backends, default_backend, gres, store, cache, mode>>

\* Lines 389-393: the next argument that is a NodeWrapper is evaluated.
ResolveArg(p) ==
    /\ Pc(p) = "args"
    /\ NextNodeArg(Top(p)) # 0
    /\ LET i == NextNodeArg(Top(p))
           child == objs[Top(p).node].kwargs[i].value.id
       IN stack' = [stack EXCEPT ![p] =
                Append(SetTop(p, [Top(p) EXCEPT !.todo = i])[p], NewFrame(child))]
    /\ UNCHANGED <<lockVars, graphVars, store, cache, trace, mode>>

\* Lines 395-404: data = func(**inputs).  The function returns an object, a
\* Figure or None, or it raises.
CallFunc(p, outcome) ==
    /\ Pc(p) = "args"
    /\ NextNodeArg(Top(p)) = 0
    /\ LET n == Top(p).node
           data == ReturnValue(objs[n].func, outcome)
       IN /\ trace' = SetCall(p, [ThisCall(p) EXCEPT
                !.ran[n] = @ + 1,
                !.args[n] = Top(p).inputs,
                !.failed = IF outcome = "raise" THEN @ \cup {n} ELSE @])
          /\ stack' = SetTop(p,
                IF outcome = "raise"
                THEN [Top(p) EXCEPT !.exc = Raised("Exception", n), !.pc = "release"]
                ELSE [Top(p) EXCEPT !.data = data,
                                    !.pc = IF data # None THEN "save" ELSE "release"])
    /\ UNCHANGED <<lockVars, graphVars, store, cache, mode>>

\* Lines 405-410: backend_interface.save(data=data)
SaveData(p) ==
    /\ Pc(p) = "save"
    /\ LET n == Top(p).node
           r == Save(store, objs[n], Top(p).data)
       IN /\ store' = r.st
          /\ trace' = SetCall(p, [ThisCall(p) EXCEPT !.saves[n] = @ + 1])
          /\ stack' = SetTop(p,
                IF r.raised = "none"
                THEN [Top(p) EXCEPT !.pc = "release"]
                ELSE [Top(p) EXCEPT !.exc = Raised(r.raised, n), !.pc = "release"])
    /\ UNCHANGED <<lockVars, graphVars, cache, mode>>

\* A with block whose __exit__ swallows the exception: the call returns.
LeaveSwallowing(p) ==
    /\ Finish(p, Top(p).data, NoExc)
    /\ cache' = [cache EXCEPT ![p] = CacheInsert(@, objs[Top(p).node], Top(p).data)]

\* Lines 420-425 after the with block has been left: the exception goes on, or
\* the value is cached and returned.
Leave(p) ==
    IF Top(p).exc # NoExc
    THEN /\ Finish(p, None, Top(p).exc)
         /\ cache' = cache
    ELSE /\ Finish(p, Top(p).data, NoExc)
         /\ cache' = [cache EXCEPT ![p] = CacheInsert(@, objs[Top(p).node], Top(p).data)]

\* Leaving the with block: __exit__ calls release().  With flock this is the
\* unlock; with O_EXCL it is the whole release().
ExitLock(p) ==
    /\ Pc(p) = "release"
    /\ IF locker = "flock"
       THEN /\ SetWorld(DropFlock(World, Inst(p)).w)
            /\ stack' = SetTop(p, [Top(p) EXCEPT !.pc = "unlink"])
            /\ UNCHANGED <<trace, cache, objs>>
       ELSE LET r == ReleaseExcl(World, Inst(p)) IN
            /\ SetWorld(Discard(r.w, Inst(p)))
            /\ IF r.raised = "none"
               THEN Leave(p)
               ELSE /\ Finish(p, None, Raised(r.raised, Top(p).node))
                    /\ cache' = cache
    /\ UNCHANGED <<locker, lpc, lres, nodes, backends, default_backend, gres, store, mode>>

\* release() of src/mldb/locker.py, the unlink of the marker.
ExitUnlink(p) ==
    /\ Pc(p) = "unlink"
    /\ SetWorld(Discard(UnlinkMarker(World, Inst(p)), Inst(p)))
    /\ Leave(p)
    /\ UNCHANGED <<locker, lpc, lres, nodes, backends, default_backend, gres, store, mode>>

\* Lines 412-425: the artifact exists: data = backend_interface.load()
LoadData(p) ==
    /\ Pc(p) = "load"
    /\ LET n == Top(p).node
           r == Load(store, objs[n])
       IN IF r.raised = "none"
          THEN /\ Finish(p, r.data, NoExc)
               /\ cache' = [cache EXCEPT ![p] = CacheInsert(@, objs[n], r.data)]
          ELSE /\ Finish(p, None, Raised(r.raised, n))
               /\ cache' = cache
    /\ UNCHANGED <<lockVars, nodes, backends, default_backend, gres, store, mode>>

Outcomes(p) ==
    IF Idle(p) THEN {} ELSE ReturnTypes(objs[Top(p).node].backend) \cup {"raise"}

EvalNext ==
    \E p \in Procs :
        \/ \E n \in ObjIds : Evaluate(p, n)
        \/ Enter(p)
        \/ EnterLock(p)
        \/ EnterFlock(p)
        \/ ResolveArg(p)
        \/ \E outcome \in Outcomes(p) : CallFunc(p, outcome)
        \/ SaveData(p)
        \/ ExitLock(p)
        \/ ExitUnlink(p)
        \/ LoadData(p)


----------------------------------------------------------------------------
(* The program that is evaluated: a graph with two more backends, either   *)
(* of the three its default, and the nodes                                 *)
(*     L = load(),  M = max_row(data=L),                                   *)
(*     S = scale(data=L, items=[L, M], scale=3).                           *)

StoreDir == "store"

GraphWithBackends(default) ==
    LET G1 == add_backend(NewGraph, "pkl", PickleBackend(StoreDir), FALSE).g
        G2 == add_backend(G1, "png", PNGBackend(StoreDir), FALSE).g
    IN set_default_backend(G2, default).g

Kw(key, value) == [key |-> key, value |-> value]

\* L and M only.
ChainGraph(default) ==
    LET G0 == GraphWithBackends(default)
        L == make_node(G0, Fn("load"), <<"L">>, NoBackendArg, <<>>, TRUE, TRUE)
        M == make_node(L.g, Fn("max_row"), <<"M">>, NoBackendArg,
                       <<Kw("data", NodeArg(L.ret))>>, TRUE, TRUE)
    IN M.g

ProgramGraph(default) ==
    LET G == ChainGraph(default)
        S == make_node(G, Fn("scale"), <<"S">>, NoBackendArg,
                       <<Kw("data", NodeArg(G.nodes[<<"L">>])),
                         Kw("items", SeqArg(<<NodeArg(G.nodes[<<"L">>]),
                                              NodeArg(G.nodes[<<"M">>])>>)),
                         Kw("scale", Literal([func |-> "", type |-> "int"]))>>,
                       TRUE, TRUE)
    IN S.g

\* A storage location in which no artifact of the graph has been made yet.
EmptyStore(G) == [q \in {InterfacePath(G.objs[n]) : n \in 1..Len(G.objs)} |-> NoFile]

EvalInitOn(G, m, st) ==
    /\ locker \in Lockers
    /\ SetGraphInit(G)
    /\ gres = NoCall
    /\ store = st
    /\ marker = [q \in {LockFilename(locker, InterfacePath(G.objs[n])) :
                            n \in 1..Len(G.objs)} |-> NoInode]
    /\ flockOwner = <<>>
    /\ createdBy = <<>>
    /\ fl = [i \in Procs \X (1..Len(G.objs)) |-> NoFileLock]
    /\ cache = [p \in Procs |-> <<>>]
    /\ stack = [p \in Procs |-> <<>>]
    /\ trace = [p \in Procs |-> <<>>]
    /\ mode = m
    /\ NoClientsInit

EvalInit(G, m) == EvalInitOn(G, m, EmptyStore(G))

\* Processes that run one after the other, each with its own cache.
Init == \E default \in {"none", "pkl", "png"} : EvalInit(ProgramGraph(default), "seq")

\* Processes that run at the same time on one persistent storage location.
ConcInit == \E default \in {"pkl", "png"} : EvalInit(ChainGraph(default), "conc")

Spec == Init /\ [][EvalNext]_vars
SpecConc == ConcInit /\ [][EvalNext]_vars

\* A and B, and T = join(x=A, y=B) that has both for its arguments.
ForkGraph(default) ==
    LET G0 == GraphWithBackends(default)
        A == make_node(G0, Fn("load_a"), <<"A">>, NoBackendArg, <<>>, TRUE, TRUE)
        B == make_node(A.g, Fn("load_b"), <<"B">>, NoBackendArg, <<>>, TRUE, TRUE)
        T == make_node(B.g, Fn("join"), <<"T">>, NoBackendArg,
                       <<Kw("x", NodeArg(A.ret)), Kw("y", NodeArg(B.ret))>>, TRUE, TRUE)
    IN T.g

ForkInit == \E default \in {"none", "pkl", "png"} : EvalInit(ForkGraph(default), "seq")

SpecFork == ForkInit /\ [][EvalNext]_vars

\* Processes that run at the same time and call once more, on the pickle
\* backend and the lock of src/mldb/locker.py.
RaceInit == EvalInit(ChainGraph("pkl"), "race") /\ locker = "flock"

SpecRace == RaceInit /\ [][EvalNext]_vars


SpecLockSteps == LockInit /\ [][LockStepsNext]_vars
SpecLockCalls == LockInit /\ [][LockCallsNext]_vars

----------------------------------------------------------------------------
(* The lock as any caller may use it: release() by an instance that does   *)
(* not hold the lock, a path in a directory that is not there, a holder    *)
(* whose process dies, and a marker removed by hand.                       *)

\* An artifact in the directory that does not exist.
OrphanPath == [dir |-> MissingDir, parts |-> <<"node", "json">>]

NumUseClients == 2
UseClients == {<<"client", k>> : k \in 1..NumUseClients}
LastClient == <<"client", NumUseClients>>

\* A marker is there that no instance holds: what a holder that died left.
Stale(c) ==
    /\ marker[fl[c].lock_filename] # NoInode
    /\ \A d \in DOMAIN fl : ~fl[d].is_locked

\* What a call did, and what the lock was like when it was made.
UseResult(c, op, raised, blocking) ==
    [op |-> op, raised |-> raised, blocking |-> blocking,
     heldByOther |-> HeldByOther(c), held |-> fl[c].is_locked,
     opened |-> fl[c].lock_file # NoInode, stale |-> Stale(c),
     orphan |-> fl[c].lock_filename.dir = MissingDir]

NoUse == [op |-> "none", raised |-> "none", blocking |-> FALSE, heldByOther |-> FALSE,
          held |-> FALSE, opened |-> FALSE, stale |-> FALSE, orphan |-> FALSE]

\* The last client's instance is on the target or on the orphan path; in the
\* process of every client the target's directory exists.
LockUseInit ==
    /\ locker \in Lockers
    /\ marker = [p \in {LockFilename(locker, TargetPath),
                        LockFilename(locker, OrphanPath)} |-> NoInode]
    /\ flockOwner = <<>>
    /\ createdBy = <<>>
    /\ \E path \in {TargetPath, OrphanPath} :
          fl = [c \in UseClients |->
                  NewFileLock(locker, IF c = LastClient THEN path ELSE TargetPath)]
    /\ lpc = [c \in UseClients |-> "idle"]
    /\ lres = [c \in UseClients |-> NoUse]
    /\ NoGraphInit
    /\ NoEvalInit

\* acquire(blocking) by an instance that does not hold the lock.
UseAcquire(c, blocking) ==
    /\ lpc[c] = "idle"
    /\ ~fl[c].is_locked
    /\ LET r == Acquire(locker, World, c) IN
        /\ SetWorld(r.w)
        /\ lres' = [lres EXCEPT ![c] = UseResult(c, "acquire", r.raised, blocking)]
    /\ UNCHANGED <<locker, lpc, graphVars, evalVars>>

\* release() by any instance, whether it holds the lock or not.
UseRelease(c) ==
    /\ lpc[c] = "idle"
    /\ LET r == Release(locker, World, c) IN
        /\ SetWorld(r.w)
        /\ lres' = [lres EXCEPT ![c] = UseResult(c, "release", r.raised, FALSE)]
    /\ UNCHANGED <<locker, lpc, graphVars, evalVars>>

\* The process of a holder is killed: its files are closed by the system, no
\* release() and no __del__ runs, the marker stays.
Crash(c) ==
    /\ lpc[c] = "idle"
    /\ fl[c].is_locked
    /\ SetWorld([CloseFile(World, c) EXCEPT !.fl[c].is_locked = FALSE,
                                            !.fl[c].lock_file = NoInode])
    /\ lpc' = [lpc EXCEPT ![c] = "dead"]
    /\ lres' = [lres EXCEPT ![c] = UseResult(c, "crash", "none", FALSE)]
    /\ UNCHANGED <<locker, graphVars, evalVars>>

\* Somebody removes a marker that no instance holds.
RemoveMarker ==
    /\ \E c \in UseClients : Stale(c) /\ marker' = [marker EXCEPT ![fl[c].lock_filename] = NoInode]
    /\ UNCHANGED <<locker, flockOwner, createdBy, fl, lpc, lres, graphVars, evalVars>>

LockUseNext ==
    \/ \E c \in UseClients, blocking \in BOOLEAN : UseAcquire(c, blocking)
    \/ \E c \in UseClients : UseRelease(c)
    \/ \E c \in UseClients : Crash(c)
    \/ RemoveMarker

SpecLockUse == LockUseInit /\ [][LockUseNext]_vars

\* purge(): if the marker exists, release() and True; otherwise False.
Purge(impl, W, i) ==
    IF W.marker[W.fl[i].lock_filename] # NoInode
    THEN Release(impl, W, i)
    ELSE [w |-> W, raised |-> "none"]

\* purge() by any instance.
UsePurge(c) ==
    /\ lpc[c] = "idle"
    /\ LET r == Purge(locker, World, c) IN
        /\ SetWorld(r.w)
        /\ lres' = [lres EXCEPT ![c] = UseResult(c, "purge", r.raised, FALSE)]
    /\ UNCHANGED <<locker, lpc, graphVars, evalVars>>

\* Instances on one artifact, none of them holding, no marker.
LockEndInit ==
    /\ locker \in Lockers
    /\ marker = [p \in {LockFilename(locker, TargetPath)} |-> NoInode]
    /\ flockOwner = <<>>
    /\ createdBy = <<>>
    /\ fl = [c \in LockClients |-> NewFileLock(locker, TargetPath)]
    /\ lpc = [c \in LockClients |-> "idle"]
    /\ lres = [c \in LockClients |-> NoUse]
    /\ NoGraphInit
    /\ NoEvalInit

\* Every instance may call acquire(), release() and purge() at any time.
LockEndNext ==
    \/ \E c \in LockClients : UseAcquire(c, TRUE)
    \/ \E c \in LockClients : UseRelease(c)
    \/ \E c \in LockClients : UsePurge(c)

SpecLockEnd == LockEndInit /\ [][LockEndNext]_vars

----------------------------------------------------------------------------
(* The locks of two artifacts: two nodes of one graph, made with any name  *)
(* on any backend, and instances that lock the one or the other.           *)

MarkerNames == {<<"a">>, <<"b">>, <<"x", "test">>, <<"x", "train">>}

\* Two nodes; the first is not collected, so that the second may have its
\* name.
PairGraph(name1, backend1, name2, backend2) ==
    LET G0 == GraphWithBackends("none")
        first == make_node(G0, Fn("f"), name1, backend1, <<>>, TRUE, FALSE)
    IN make_node(first.g, Fn("g"), name2, backend2, <<>>, TRUE, TRUE).g

\* The node an instance is for: the clients take the two nodes in turn.
NodeOf(c) == ((c[2] - 1) % 2) + 1

\* The artifact an instance protects.
ArtifactOf(c) == InterfacePath(objs[NodeOf(c)])

\* BackendInterface.lock(): FileLock(self.path)
InterfaceLock(impl, obj) == NewFileLock(impl, InterfacePath(obj))

\* Two nodes with different artifacts, no marker, and each client with the
\* lock of its node.
MarkersInit ==
    /\ locker \in Lockers
    /\ \E name1 \in MarkerNames, name2 \in MarkerNames,
          backend1 \in {"none", "pkl", "png"}, backend2 \in {"none", "pkl", "png"} :
          LET G == PairGraph(name1, backend1, name2, backend2) IN
            /\ InterfacePath(G.objs[1]) # InterfacePath(G.objs[2])
            /\ SetGraphInit(G)
    /\ gres = NoCall
    /\ marker = [p \in {LockFilename(locker, InterfacePath(objs[n])) : n \in 1..2}
                    |-> NoInode]
    /\ flockOwner = <<>>
    /\ createdBy = <<>>
    /\ fl = [c \in UseClients |-> InterfaceLock(locker, objs[NodeOf(c)])]
    /\ lpc = [c \in UseClients |-> "idle"]
    /\ lres = [c \in UseClients |-> NoUse]
    /\ NoEvalInit

\* with interface.lock(): acquire(blocking=False), and release() by the
\* instance that holds.
MarkersNext ==
    \/ \E c \in UseClients : UseAcquire(c, FALSE)
    \/ \E c \in UseClients : fl[c].is_locked /\ UseRelease(c)

SpecMarkers == MarkersInit /\ [][MarkersNext]_vars

----------------------------------------------------------------------------
(* One process, artifacts that are written and deleted behind its back,    *)
(* and two nodes of one name: "a" on the pickle backend, registered, whose *)
(* argument is an unregistered "a" on a matplotlib backend of another      *)
(* directory.                                                              *)

PlotDir == "plots"

AliasGraph ==
    LET G1 == add_backend(NewGraph, "pkl", PickleBackend(StoreDir), FALSE).g
        G2 == add_backend(G1, "png", PNGBackend(PlotDir), FALSE).g
        inner == make_node(G2, Fn("draw"), <<"a">>, "png", <<>>, TRUE, FALSE)
        outer == make_node(inner.g, Fn("summary"), <<"a">>, "pkl",
                           <<Kw("data", NodeArg(inner.ret))>>, TRUE, TRUE)
    IN outer.g

\* What another program may put at the path of an artifact.
Foreign(obj) ==
    [func |-> "foreign",
     type |-> IF obj.backend.kind = "matplotlib" THEN "Figure" ELSE "object"]

\* The artifact of a node is overwritten from outside.
ExternalWrite(n) ==
    /\ store[InterfacePath(objs[n])] # Foreign(objs[n])
    /\ store' = [store EXCEPT ![InterfacePath(objs[n])] = Foreign(objs[n])]
    /\ UNCHANGED <<lockVars, graphVars, cache, stack, trace, mode>>

\* The artifact of a node is deleted from outside.
ExternalDelete(n) ==
    /\ store[InterfacePath(objs[n])] # NoFile
    /\ store' = [store EXCEPT ![InterfacePath(objs[n])] = NoFile]
    /\ UNCHANGED <<lockVars, graphVars, cache, stack, trace, mode>>

AliasInit == EvalInit(AliasGraph, "seq")

AliasNext ==
    \/ \E n \in ObjIds : Evaluate("p1", n)
    \/ \E n \in ObjIds : ExternalWrite(n)
    \/ \E n \in ObjIds : ExternalDelete(n)
    \/ Enter("p1")
    \/ EnterLock("p1")
    \/ EnterFlock("p1")
    \/ ResolveArg("p1")
    \/ \E outcome \in Outcomes("p1") : CallFunc("p1", outcome)
    \/ SaveData("p1")
    \/ ExitLock("p1")
    \/ ExitUnlink("p1")
    \/ LoadData("p1")

SpecAlias == AliasInit /\ [][AliasNext]_vars

----------------------------------------------------------------------------
(* ComputationGraph.evaluate(force): the registered nodes, one after the   *)
(* other, in one process, on a storage location that may hold artifacts    *)
(* of earlier runs.                                                        *)

MaxSweeps == 2

\* What an earlier run may have left at the path of a node: what save() writes.
Leftovers(obj) ==
    CASE obj.backend.kind = "volatile" -> {NoFile}
      [] obj.backend.kind = "pickle" -> {NoFile, ReturnValue(obj.func, "object")}
      [] obj.backend.kind = "matplotlib" -> {NoFile, ReturnValue(obj.func, "Figure")}

UsedStores(G) ==
    {st \in [DOMAIN EmptyStore(G) -> UNION {Leftovers(G.objs[n]) : n \in 1..Len(G.objs)}] :
        \A n \in 1..Len(G.objs) : st[InterfacePath(G.objs[n])] \in Leftovers(G.objs[n])}

\* self.nodes.items(): the registered nodes in the order of their registration.
RegisteredIds == {nodes[k] : k \in DOMAIN nodes}
NthRegistered(i) ==
    CHOOSE n \in RegisteredIds : Cardinality({m \in RegisteredIds : m < n}) = i - 1

SweepsDone == IF gres.op = "evaluate" THEN gres.sweep ELSE 0
Sweeping == gres.op = "evaluate" /\ gres.status = "running"

\* evaluations = dict(), and the loop before its first node.
NewSweep(force, k) ==
    [op |-> "evaluate", raised |-> "none", force |-> force, sweep |-> k, pos |-> 0,
     waiting |-> FALSE, visited |-> <<>>, skipped |-> {}, existed |-> {},
     evaluations |-> <<>>, calls |-> <<>>, status |-> "running"]

\* A loop that skips whatever exists, forced or not.
SkipIfExists(st, obj, force) == Exists(st, obj)

\* if node.exists and not force: continue
ShouldSkip(st, obj, force) == Exists(st, obj) /\ ~force

\* graph.evaluate(force) is called.
GraphEvaluate(force) ==
    /\ Idle("p1")
    /\ ~Sweeping
    /\ SweepsDone < MaxSweeps
    /\ gres' = NewSweep(force, SweepsDone + 1)
    /\ UNCHANGED <<lockVars, objs, nodes, backends, default_backend, evalVars>>

\* Lines 193-197: the next node is reached: it is skipped, or its evaluate()
\* is called.
GraphVisit ==
    /\ Sweeping
    /\ ~gres.waiting
    /\ gres.pos < Cardinality(RegisteredIds)
    /\ LET n == NthRegistered(gres.pos + 1)
           reached == [gres EXCEPT !.visited = Append(@, n),
                          !.existed = IF Exists(store, objs[n]) THEN @ \cup {n} ELSE @]
       IN IF ShouldSkip(store, objs[n], gres.force)
          THEN /\ gres' = [reached EXCEPT !.pos = @ + 1, !.skipped = @ \cup {n}]
               /\ UNCHANGED <<stack, trace>>
          ELSE /\ gres' = [reached EXCEPT !.waiting = TRUE]
               /\ stack' = [stack EXCEPT !["p1"] = <<NewFrame(n)>>]
               /\ trace' = [trace EXCEPT !["p1"] = Append(@, NewCall(n))]
    /\ UNCHANGED <<lockVars, objs, nodes, backends, default_backend, store, cache, mode>>

\* Line 197: evaluations[key] = node.evaluate(), once the call has ended; an
\* exception of the call ends the loop.
GraphCollect ==
    /\ Sweeping
    /\ gres.waiting
    /\ Idle("p1")
    /\ LET call == ThisCall("p1")
           key == objs[call.node].name
       IN gres' =
            IF call.status = "returned"
            THEN [gres EXCEPT !.waiting = FALSE, !.pos = @ + 1,
                    !.evaluations = [k \in DOMAIN @ \cup {key} |->
                                        IF k = key THEN call.value ELSE @[k]],
                    !.calls = [k \in DOMAIN @ \cup {key} |->
                                        IF k = key THEN Len(trace["p1"]) ELSE @[k]]]
            ELSE [gres EXCEPT !.waiting = FALSE, !.status = "raised",
                    !.raised = call.exc[1]]
    /\ UNCHANGED <<lockVars, objs, nodes, backends, default_backend, evalVars>>

\* Line 199: return evaluations
GraphReturn ==
    /\ Sweeping
    /\ ~gres.waiting
    /\ gres.pos = Cardinality(RegisteredIds)
    /\ gres' = [gres EXCEPT !.status = "returned"]
    /\ UNCHANGED <<lockVars, objs, nodes, backends, default_backend, evalVars>>

SweepInit ==
    \E default \in {"none", "pkl", "png"} :
        \E st \in UsedStores(ChainGraph(default)) :
            EvalInitOn(ChainGraph(default), "seq", st)

SweepNext ==
    \/ \E force \in BOOLEAN : GraphEvaluate(force)
    \/ GraphVisit
    \/ GraphCollect
    \/ GraphReturn
    \/ Enter("p1")
    \/ EnterLock("p1")
    \/ EnterFlock("p1")
    \/ ResolveArg("p1")
    \/ \E outcome \in Outcomes("p1") : CallFunc("p1", outcome)
    \/ SaveData("p1")
    \/ ExitLock("p1")
    \/ ExitUnlink("p1")
    \/ LoadData("p1")

SpecSweep == SweepInit /\ [][SweepNext]_vars

\* Two nodes whose names have a dot: "x.test", and "x.train" = fit(data=x.test).
DottedGraph(default) ==
    LET G0 == GraphWithBackends(default)
        test == make_node(G0, Fn("load"), <<"x", "test">>, NoBackendArg, <<>>, TRUE, TRUE)
        train == make_node(test.g, Fn("fit"), <<"x", "train">>, NoBackendArg,
                           <<Kw("data", NodeArg(test.ret))>>, TRUE, TRUE)
    IN train.g

\* One process, alone, no lock marker anywhere, and in storage what earlier
\* runs may have left.
SoloInit ==
    \E default \in {"none", "pkl"} : \E st \in UsedStores(DottedGraph(default)) :
        EvalInitOn(DottedGraph(default), "seq", st)

SoloNext ==
    \/ \E n \in ObjIds : Evaluate("p1", n)
    \/ Enter("p1")
    \/ EnterLock("p1")
    \/ EnterFlock("p1")
    \/ ResolveArg("p1")
    \/ \E outcome \in Outcomes("p1") : CallFunc("p1", outcome)
    \/ SaveData("p1")
    \/ ExitLock("p1")
    \/ ExitUnlink("p1")
    \/ LoadData("p1")

SpecSolo == SoloInit /\ [][SoloNext]_vars

\* node.kwargs[key] = value: the NodeWrapper keeps the dict it was given, so
\* an argument can be put in after the node was made.
SetKwarg(G, id, key, value) ==
    [G EXCEPT !.objs[id].kwargs = Append(@, Kw(key, value))]

\* D = load(), A = f(), B = g(d=D, x=A), and then A.kwargs["x"] = back, with
\* back either B, which closes the cycle A -> B -> A, or A itself.
CycleGraph(default, back) ==
    LET G0 == GraphWithBackends(default)
        D == make_node(G0, Fn("load"), <<"D">>, NoBackendArg, <<>>, TRUE, TRUE)
        A == make_node(D.g, Fn("f"), <<"A">>, NoBackendArg, <<>>, TRUE, TRUE)
        B == make_node(A.g, Fn("g"), <<"B">>, NoBackendArg,
                       <<Kw("d", NodeArg(D.ret)), Kw("x", NodeArg(A.ret))>>, TRUE, TRUE)
    IN SetKwarg(B.g, A.ret, "x", NodeArg(B.g.nodes[back]))

\* What earlier runs may have left of D; of A and B there is no artifact.
CycleStores(G) ==
    {st \in UsedStores(G) :
        \A name \in {<<"A">>, <<"B">>} : st[InterfacePath(G.objs[G.nodes[name]])] = NoFile}

CycleInit ==
    \E default \in {"none", "pkl", "png"}, back \in {<<"A">>, <<"B">>} :
        \E st \in CycleStores(CycleGraph(default, back)) :
            EvalInitOn(CycleGraph(default, back), "cycle", st)

\* What a process does next inside a call of evaluate(): the interpreter
\* goes on with a call that has begun.
Running(p) ==
    \/ Enter(p)
    \/ EnterLock(p)
    \/ EnterFlock(p)
    \/ ResolveArg(p)
    \/ \E outcome \in Outcomes(p) : CallFunc(p, outcome)
    \/ SaveData(p)
    \/ ExitLock(p)
    \/ ExitUnlink(p)
    \/ LoadData(p)

SpecCycle ==
    CycleInit /\ [][EvalNext]_vars /\ \A p \in Procs : WF_vars(Running(p))

\* w = make_node(..., backend="pkl", collect=False), with the name of v or
\* with its own; v = make_node(..., name="a", backend="pkl", cache=False);
\* u = make_node(..., kwargs={"x": v}).
UncachedGraph(wname) ==
    LET G0 == GraphWithBackends("none")
        w == make_node(G0, Fn("w"), wname, "pkl", <<>>, TRUE, FALSE)
        v == make_node(w.g, Fn("v"), <<"a">>, "pkl", <<>>, FALSE, TRUE)
        u == make_node(v.g, Fn("u"), <<"u">>, "pkl", <<Kw("x", NodeArg(v.ret))>>,
                       TRUE, TRUE)
    IN u.g

UncachedInit ==
    \E wname \in {<<"a">>, <<"w">>} : EvalInit(UncachedGraph(wname), "seq")

SpecUncached == UncachedInit /\ [][EvalNext]_vars

----------------------------------------------------------------------------
(* The graph by itself: nodes are made, by any call of make_node.          *)

MaxObjs == 2

NoLockInit ==
    /\ locker = "flock"
    /\ marker = <<>>
    /\ flockOwner = <<>>
    /\ createdBy = <<>>
    /\ fl = <<>>
    /\ NoClientsInit

GraphInit ==
    /\ SetGraphInit(add_backend(NewGraph, "pkl", PickleBackend(StoreDir), FALSE).g)
    /\ gres = NoCall
    /\ NoLockInit
    /\ NoEvalInit

\* What a caller passes as kwargs: nothing for the first node, the node made
\* last for every other.
KwargsChoices ==
    IF objs = <<>> THEN {<<>>} ELSE {<<Kw("data", NodeArg(Len(objs)))>>}

KwargsOfNext == CHOOSE kwargs \in KwargsChoices : TRUE

\* graph.make_node(func, name, backend, kwargs, cache, collect)
MakeNode(func, name, backend, kwargs, use_cache, collect) ==
    /\ LET r == make_node(Graph, func, name, backend, kwargs, use_cache, collect) IN
        /\ Len(r.g.objs) <= MaxObjs
        /\ SetGraph(r.g)
        /\ gres' = [op |-> "make_node", raised |-> r.raised, ret |-> r.ret,
                    name |-> name, callable |-> func.callable,
                    dup |-> name \in DOMAIN nodes, backend |-> backend,
                    flag |-> use_cache]
    /\ UNCHANGED <<lockVars, evalVars>>

\* What a caller may register: a backend of either persistent kind.
BackendChoices == {PickleBackend(StoreDir), PNGBackend(StoreDir)}

BackendNames == {"none", "pkl", "png"}

\* graph.add_backend(name, backend, make_default)
AddBackend(name, backend, make_default) ==
    /\ LET r == add_backend(Graph, name, backend, make_default) IN
        /\ SetGraph(r.g)
        /\ gres' = [NoCall EXCEPT !.op = "add_backend", !.raised = r.raised,
                                  !.dup = name \in DOMAIN backends,
                                  !.backend = name, !.flag = make_default]
    /\ UNCHANGED <<lockVars, evalVars>>

\* graph.set_default_backend(backend_name)
SetDefaultBackend(backend_name) ==
    /\ LET r == set_default_backend(Graph, backend_name) IN
        /\ SetGraph(r.g)
        /\ gres' = [NoCall EXCEPT !.op = "set_default_backend", !.raised = r.raised,
                                  !.backend = backend_name]
    /\ UNCHANGED <<lockVars, evalVars>>

GraphNext ==
    \E func \in {Fn("f"), NotCallable}, name \in {NoName, <<"a">>, <<"b">>},
       backend \in {NoBackendArg, "pkl", "missing"}, kwargs \in KwargsChoices,
       use_cache \in BOOLEAN, collect \in BOOLEAN :
        MakeNode(func, name, backend, kwargs, use_cache, collect)

SpecGraph == GraphInit /\ [][GraphNext]_vars

(* The graph and its backends: backends are registered, the default is     *)
(* set, and nodes are made, in any order, on a graph as its constructor    *)
(* leaves it.                                                              *)
BackendsInit ==
    /\ SetGraphInit(NewGraph)
    /\ gres = NoCall
    /\ NoLockInit
    /\ NoEvalInit

BackendsNext ==
    \/ \E name \in BackendNames \cup {NotAString}, backend \in BackendChoices,
          make_default \in BOOLEAN : AddBackend(name, backend, make_default)
    \/ \E backend_name \in BackendNames \cup {NotAString} :
            SetDefaultBackend(backend_name)
    \/ \E name \in {NoName, <<"a">>}, backend \in BackendNames \cup {NoBackendArg},
          use_cache \in BOOLEAN :
            MakeNode(Fn("f"), name, backend, KwargsOfNext, use_cache, TRUE)

SpecBackends == BackendsInit /\ [][BackendsNext]_vars

(* The arguments of a node: a node is made with keyword arguments of every *)
(* kind, and its sources and keywords are read.                            *)

MaxArgs == 2
ArgKeys == {"data", "items", "scale"}

\* Every kwargs of at most MaxArgs entries, in every order of the keys: a value
\* is the node L, a literal, or a list that holds the node L.
ArgValues == {NodeArg(1), Literal([func |-> "", type |-> "int"]), SeqArg(<<NodeArg(1)>>)}
AllKwargs ==
    {kwargs \in UNION {[1..k -> {Kw(key, value) : key \in ArgKeys, value \in ArgValues}] :
                            k \in 0..MaxArgs} :
        \A i, j \in DOMAIN kwargs : i # j => kwargs[i].key # kwargs[j].key}

\* A reading that takes every argument for a keyword.
EveryArgument(obj) == obj.kwargs

\* NodeWrapper.sources
sources(obj) == SelectSeq(obj.kwargs, LAMBDA kw : IsNodeWrapper(kw.value))

\* NodeWrapper.keywords
keywords(obj) == SelectSeq(obj.kwargs, LAMBDA kw : ~IsNodeWrapper(kw.value))

ArgsInit ==
    /\ SetGraphInit(make_node(NewGraph, Fn("load"), <<"L">>, NoBackendArg, <<>>,
                              TRUE, TRUE).g)
    /\ gres = NoCall
    /\ NoLockInit
    /\ NoEvalInit

\* node = graph.make_node(func, kwargs=kwargs), once
MakeArgsNode(kwargs) ==
    /\ Len(objs) = 1
    /\ LET r == make_node(Graph, Fn("f"), <<"N">>, NoBackendArg, kwargs, TRUE, TRUE) IN
        /\ SetGraph(r.g)
        /\ gres' = [op |-> "make_node", raised |-> r.raised, node |-> r.ret,
                    result |-> <<>>]
    /\ UNCHANGED <<lockVars, evalVars>>

\* node.sources
ReadSources(n) ==
    /\ gres' = [op |-> "sources", raised |-> "none", node |-> n,
                result |-> sources(objs[n])]
    /\ UNCHANGED <<lockVars, evalVars, objs, nodes, backends, default_backend>>

\* node.keywords
ReadKeywords(n) ==
    /\ gres' = [op |-> "keywords", raised |-> "none", node |-> n,
                result |-> keywords(objs[n])]
    /\ UNCHANGED <<lockVars, evalVars, objs, nodes, backends, default_backend>>

ArgsNext ==
    \/ \E kwargs \in AllKwargs : MakeArgsNode(kwargs)
    \/ \E n \in ObjIds : ReadSources(n)
    \/ \E n \in ObjIds : ReadKeywords(n)

SpecArgs == ArgsInit /\ [][ArgsNext]_vars

----------------------------------------------------------------------------
(* What the claims speak of.                                               *)

CallIds == {c \in Procs \X (1..MaxCalls + MaxConcCalls) : c[2] <= Len(trace[c[1]])}
CallOf(c) == trace[c[1]][c[2]]
Finished(call) == call.status # "running"
Returned(call) == call.status = "returned"
NodeId(name) == IF name \in DOMAIN nodes THEN nodes[name] ELSE 0
IdL == NodeId(<<"L">>)
IdM == NodeId(<<"M">>)
IdS == NodeId(<<"S">>)
Persistent(obj) == obj.backend.kind # "volatile"

\* Process p has made exactly the calls evaluate(first); evaluate(second), both
\* returned, and no other process has run.
RanAlone(p, first, second) ==
    /\ Len(trace[p]) = 2
    /\ \A q \in Procs \ {p} : trace[q] = <<>>
    /\ trace[p][1].node = first /\ Returned(trace[p][1])
    /\ trace[p][2].node = second /\ Returned(trace[p][2])

\* d is the evaluate() of node n made next after call c, and it has finished.
NextEvaluateOf(c, d, n) ==
    /\ CallOf(d).seq = CallOf(c).seq + 1
    /\ CallOf(d).node = n
    /\ Finished(CallOf(d))

\* c is the call made last, and it has finished.
JustFinished(c) == CallOf(c).seq = TotalCalls /\ Finished(CallOf(c))

(* C1: with L an argument of the two sinks M and S, M.evaluate(); S.evaluate() *)
(* in one process invokes L's function exactly once, whatever the backend. *)
C1_SourceComputedOnce ==
    \A p \in Procs :
        (IdS # 0 /\ RanAlone(p, IdM, IdS)) =>
            trace[p][1].ran[IdL] + trace[p][2].ran[IdL] = 1

(* C3: two processes with empty caches that evaluate the same node of the  *)
(* same persistent storage location invoke its function at most once and  *)
(* save its result at most once in total.                                  *)
C3_OneComputeAcrossProcesses ==
    \A n \in ObjIds :
        (/\ \A p \in Procs : Len(trace[p]) = 1 /\ trace[p][1].node = n
         /\ Persistent(objs[n]))
        => /\ trace["p1"][1].ran[n] + trace["p2"][1].ran[n] <= 1
           /\ trace["p1"][1].saves[n] + trace["p2"][1].saves[n] <= 1

\* An argument as the function must get it: no NodeWrapper left in it, nor in
\* the sequence it is.
FullyResolved(arg) ==
    /\ arg.t # "node"
    /\ \A j \in 1..Len(arg.elems) : arg.elems[j].t # "node"

(* C7: a function whose argument is a sequence with nodes in it is called  *)
(* with that sequence, each nested node replaced by its value.             *)
C7_NestedNodesResolved ==
    \A c \in CallIds : \A n \in ObjIds :
        CallOf(c).ran[n] > 0 =>
            \A i \in 1..Len(CallOf(c).args[n]) : FullyResolved(CallOf(c).args[n][i])

(* C8: in a graph with its default configuration, M.evaluate() twice in    *)
(* one process gives equal values and the second call invokes neither M's  *)
(* function nor L's.                                                       *)
C8_SecondCallComputesNothing ==
    \A p \in Procs :
        (default_backend = "none" /\ RanAlone(p, IdM, IdM)) =>
            /\ trace[p][2].value = trace[p][1].value
            /\ trace[p][2].ran[IdM] = 0
            /\ trace[p][2].ran[IdL] = 0

----------------------------------------------------------------------------
(* C2: at most one process at a time is between a successful acquire() and *)
(* its release() for one artifact path, under every interleaving of the    *)
(* statements of acquire() and release().                                  *)
C2_MutualExclusion == Cardinality(Holders) <= 1

(* C9: an acquire() made while another instance holds the lock raises      *)
(* FileLockExistsException in the call itself, whatever 'blocking' is, and *)
(* an acquire() made when no other instance holds it succeeds.             *)
C9_LockExclusion ==
    \A c \in LockClients :
        lres[c].op = "acquire" =>
            lres[c].raised =
                IF lres[c].heldByOther THEN "FileLockExistsException" ELSE "none"

----------------------------------------------------------------------------
\* What a call whose function of node n raised must have done and left.
FailureLeavesNothing(c, n) ==
    /\ CallOf(c).status = "raised"
    /\ CallOf(c).exc = <<"Exception", n>>
    /\ CallOf(c).saves[n] = 0
    /\ JustFinished(c) =>
            /\ ~Exists(store, objs[n])
            /\ objs[n].name \notin DOMAIN cache[c[1]]

FailedIn(c) == IF Finished(CallOf(c)) THEN CallOf(c).failed ELSE {}

(* C4, as the specification words it: when the function of a node raises,  *)
(* the same exception reaches the caller, save() is not called for the     *)
(* node, exists() is false and the cache has no entry for it afterwards,   *)
(* and the next evaluate() of the node invokes its function again.         *)
C4_FailureThenRecompute ==
    \A c \in CallIds : \A n \in FailedIn(c) :
        /\ FailureLeavesNothing(c, n)
        /\ \A d \in CallIds :
                NextEvaluateOf(c, d, n) => CallOf(d).ran[n] >= 1

(* C4, amended: as above, but the next evaluate() of the node invokes its  *)
(* function again unless the evaluation of one of its arguments raises     *)
(* first, in which case that exception reaches the caller.                 *)
C4_FailureThenRetry ==
    \A c \in CallIds : \A n \in FailedIn(c) :
        /\ FailureLeavesNothing(c, n)
        /\ \A d \in CallIds :
                NextEvaluateOf(c, d, n) =>
                    \/ CallOf(d).ran[n] >= 1
                    \/ /\ CallOf(d).status = "raised"
                       /\ CallOf(d).exc[2] # n
                       /\ \E i \in 1..Len(objs[n].kwargs) :
                            /\ IsNodeWrapper(objs[n].kwargs[i].value)
                            /\ CallOf(d).exc[2] = objs[n].kwargs[i].value.id

C4_Witness ==
    \E c, d \in CallIds : \E n \in FailedIn(c) :
        /\ objs[n].kwargs # <<>>
        /\ NextEvaluateOf(c, d, n)
        /\ CallOf(d).ran[n] >= 1
        /\ CallOf(d).status = "returned"

----------------------------------------------------------------------------
\* The FileLock of a call that is still running.
Live(i) == i[2] <= Len(stack[i[1]])

\* The markers that are there and were created by the open() of instance i.
MarkersCreatedBy(i) ==
    {q \in DOMAIN marker :
        /\ marker[q] # NoInode
        /\ marker[q] \in DOMAIN createdBy
        /\ createdBy[marker[q]] = i}

HoldsNothing(i) ==
    /\ ~fl[i].is_locked
    /\ \A n \in DOMAIN flockOwner : flockOwner[n] # i

\* The marker at q is that of the lock a running call of another process holds,
\* or has unlocked and is about to unlink.
InUseElsewhere(q, i) ==
    \E j \in DOMAIN fl :
        /\ Live(j)
        /\ j[1] # i[1]
        /\ fl[j].lock_file = marker[q]
        /\ \/ FlockOf(World, marker[q]) = j
           \/ stack[j[1]][j[2]].pc = "unlink"

----------------------------------------------------------------------------
(* C6: for a node of a persistent backend, exists() is true once           *)
(* evaluate() has returned, and a second process with an empty cache and   *)
(* the same storage location then gets an equal value from evaluate()      *)
(* without invoking the function of the node.                              *)
C6_PersistedAndShared ==
    \A c \in CallIds :
        (Returned(CallOf(c)) /\ Persistent(objs[CallOf(c).node])) =>
            /\ JustFinished(c) => Exists(store, objs[CallOf(c).node])
            /\ \A d \in CallIds :
                    (/\ c[1] # d[1]
                     /\ d[2] = 1
                     /\ NextEvaluateOf(c, d, CallOf(c).node))
                    => /\ Returned(CallOf(d))
                       /\ CallOf(d).value = CallOf(c).value
                       /\ CallOf(d).ran[CallOf(c).node] = 0

----------------------------------------------------------------------------
\* No key of graph.nodes is lost in a step, nor is the object under it another.
NodesOnlyGrow ==
    \A k \in DOMAIN nodes :
        /\ k \in DOMAIN nodes'
        /\ nodes'[k] = nodes[k]
        /\ objs'[nodes[k]] = objs[nodes[k]]

DuplicateRejected ==
    (gres.op = "make_node" /\ gres.callable /\ gres.dup) => gres.raised = "KeyError"

----------------------------------------------------------------------------
\* A step that is add_backend with a name that was registered leaves the
\* backends and the default as they were, and raises KeyError.
DuplicateBackendRejected ==
    (gres'.op = "add_backend" /\ gres'.dup) =>
        /\ gres'.raised = "KeyError"
        /\ backends' = backends
        /\ default_backend' = default_backend

(* C11: add_backend with a name that is in graph.backends, the             *)
(* pre-registered 'none' included, raises KeyError and changes neither     *)
(* graph.backends nor graph.default_backend, whatever make_default is.     *)
C11_DuplicateBackendRejected == [][DuplicateBackendRejected]_vars

C11_Witness ==
    /\ gres.op = "add_backend" /\ gres.dup /\ gres.flag
    /\ gres.backend = "none"
    /\ gres.raised = "KeyError"
    /\ default_backend # "none"
    /\ backends["none"] = VolatileBackend

----------------------------------------------------------------------------
\* The backend name the last make_node resolved: the one given, or the default.
AskedBackend == IF gres.backend = NoBackendArg THEN default_backend ELSE gres.backend

MadeNode == gres.op = "make_node" /\ gres.raised = "none"

----------------------------------------------------------------------------
\* The nodes the loop has dealt with so far.
Passed == {gres.visited[i] : i \in 1..gres.pos}

----------------------------------------------------------------------------
\* No entry of a cache goes, and none gets another value, in a step.
CacheKept ==
    \A p \in Procs : \A k \in DOMAIN cache[p] :
        k \in DOMAIN cache'[p] /\ cache'[p][k] = cache[p][k]

\* A step in which an evaluate() of a cached name ends gives the cached value.
HitReturnsCached ==
    \A p \in Procs :
        (/\ Pc(p) = "enter"
         /\ Len(stack[p]) = 1
         /\ objs[Top(p).node].name \in DOMAIN cache[p]
         /\ stack'[p] # stack[p])
        => /\ trace'[p][Len(trace'[p])].status = "returned"
           /\ trace'[p][Len(trace'[p])].value = cache[p][objs[Top(p).node].name]

(* C13: an entry of the memoization cache is never removed and never gets  *)
(* another value, whatever is evaluated and whatever happens to the stored *)
(* artifact, and every later evaluate() of the name returns the cached     *)
(* value.                                                                  *)
C13_CacheEntriesStable == [][CacheKept /\ HitReturnsCached]_vars

\* C15: release() is idempotent in both implementations: called by an instance
\* that does not hold the lock (after its own release, or before any acquire)
\* it raises nothing, and afterwards the marker is absent and is_locked is false.
ReleaseByNonHolderIsQuiet ==
    \A c \in UseClients :
        (UseRelease(c) /\ ~fl[c].is_locked) =>
            /\ lres'[c].raised = "none"
            /\ marker'[fl[c].lock_filename] = NoInode
            /\ ~fl'[c].is_locked
C15_ReleaseIdempotent == [][ReleaseByNonHolderIsQuiet]_vars

\* acquire() calls that found a marker no live instance holds.
StaleAcquires == {c \in UseClients : lres[c].op = "acquire" /\ lres[c].stale}

StaleMarkerStays ==
    \A p \in DOMAIN marker :
        (/\ marker[p] # NoInode
         /\ \A d \in DOMAIN fl : ~fl[d].is_locked
         /\ marker'[p] = NoInode)
        => RemoveMarker \/ \E c \in UseClients : UseRelease(c)

C18_MissingParent ==
    \A c \in UseClients :
        (lres[c].op = "acquire" /\ lres[c].orphan) =>
            /\ lres[c].raised = "FileNotFoundError"
            /\ ~fl[c].is_locked
            /\ marker[fl[c].lock_filename] = NoInode

C18_Witness ==
    \E c \in UseClients :
        /\ lres[c].op = "acquire" /\ lres[c].orphan
        /\ lres[c].raised = "FileNotFoundError"
        /\ fl[c].lock_filename = LockFilename(locker, OrphanPath)

VolatileIds == {n \in ObjIds : objs[n].backend.kind = "volatile"}

\* C16: for a node bound to the volatile backend exists() is false in every
\* state, whatever has been evaluated, and no artifact of it is ever there.
C16_VolatileNeverExists ==
    \A n \in VolatileIds :
        /\ ~Exists(store, objs[n])
        /\ store[InterfacePath(objs[n])] = NoFile

C16_Witness ==
    \E p \in Procs :
        /\ Len(trace[p]) >= 2
        /\ \A i \in 1..2 : /\ trace[p][i].status = "returned"
                            /\ trace[p][i].node = IdM
                            /\ trace[p][i].saves[IdL] > 0
                            /\ trace[p][i].saves[IdM] > 0
                            /\ trace[p][i].value # None
        /\ {IdL, IdM} \subseteq VolatileIds

\* A dict as the set of its items, and its keys.
Items(d) == {<<d[i].key, d[i].value>> : i \in DOMAIN d}
Keys(d) == {d[i].key : i \in DOMAIN d}

\* C19: sources and keywords partition the kwargs of every node: sources are
\* exactly the entries whose value is a NodeWrapper, keywords exactly the
\* others, no key is in both, and together they are the kwargs; what the two
\* properties return is that.
C19_SourcesKeywordsPartition ==
    /\ \A n \in ObjIds :
        LET kw == objs[n].kwargs IN
        /\ Items(sources(objs[n])) = {e \in Items(kw) : e[2].t = "node"}
        /\ Items(keywords(objs[n])) = {e \in Items(kw) : e[2].t # "node"}
        /\ Keys(sources(objs[n])) \cap Keys(keywords(objs[n])) = {}
        /\ Items(sources(objs[n])) \cup Items(keywords(objs[n])) = Items(kw)
        /\ Len(sources(objs[n])) + Len(keywords(objs[n])) = Len(kw)
    /\ gres.op = "sources" =>
            Items(gres.result) = {e \in Items(objs[gres.node].kwargs) : e[2].t = "node"}
    /\ gres.op = "keywords" =>
            Items(gres.result) = {e \in Items(objs[gres.node].kwargs) : e[2].t # "node"}

C19_Witness ==
    /\ gres.op = "keywords"
    /\ Len(objs[gres.node].kwargs) = 2
    /\ Len(gres.result) = 1
    /\ gres.result[1].value.t = "sequence"
    /\ Len(sources(objs[gres.node])) = 1

\* The step of process p in which a call finds its node's name in the cache.
HitBy(p) ==
    /\ Pc(p) = "enter"
    /\ objs[Top(p).node].name \in DOMAIN cache[p]
    /\ stack'[p] # stack[p]

\* The call is over with that step, and its caller has the cached value: the
\* evaluate() of the user returns it, the frame that resolves its arguments
\* takes it as the argument; no function ran and nothing was saved.
HitGivesCached(p) ==
    LET hit == cache[p][objs[Top(p).node].name]
        depth == Len(stack[p]) IN
    /\ Len(stack'[p]) = depth - 1
    /\ IF depth = 1
       THEN trace' = [trace EXCEPT ![p][Len(trace[p])] =
                        [@ EXCEPT !.status = "returned", !.value = hit]]
       ELSE /\ trace' = trace
            /\ stack'[p][depth - 1] =
                  [stack[p][depth - 1] EXCEPT !.inputs[stack[p][depth - 1].todo] =
                                                  Resolved(hit)]

\* C20: a call whose node's name is in the memoization cache returns the cached
\* value at once: no exists(), load(), save() or lock(), no argument node is
\* evaluated, the function is not invoked, and storage, lock markers and the
\* cache are as before.
C20_CacheHitNoIO ==
    [][\A p \in Procs : HitBy(p) =>
            /\ HitGivesCached(p)
            /\ UNCHANGED <<store, marker, flockOwner, createdBy, fl, cache>>]_vars

C20_Witness ==
    \E p \in Procs :
        /\ Len(trace[p]) = 2
        /\ trace[p][1].node = IdM /\ trace[p][2].node = IdM
        /\ trace[p][1].ran[IdM] = 1
        /\ <<"M">> \in DOMAIN cache[p]
        /\ trace[p][2].status = "returned"
        /\ trace[p][2].value = cache[p][<<"M">>]
        /\ \A n \in ObjIds : trace[p][2].ran[n] = 0 /\ trace[p][2].saves[n] = 0

----------------------------------------------------------------------------
\* The artifact of a node is in storage, and its backend is one that looks.
ArtifactThere(obj) ==
    obj.backend.kind # "volatile" /\ store[InterfacePath(obj)] # NoFile

\* A step of process p.
StepOf(p) == stack'[p] # stack[p]

\* The step of p in which a call, its name not cached, finds its artifact:
\* load() is what comes next, and nothing else has happened.
FoundGoesToLoad(p) ==
    (/\ Pc(p) = "enter"
     /\ objs[Top(p).node].name \notin DOMAIN cache[p]
     /\ ArtifactThere(objs[Top(p).node])
     /\ StepOf(p))
    => /\ stack'[p] = [stack[p] EXCEPT ![Len(stack[p])].pc = "load"]
       /\ UNCHANGED <<store, marker, flockOwner, createdBy, fl, cache, trace>>

\* What load() of the node does on the storage as it is now.
LoadRaises(obj) == obj.backend.kind = "pickle" /\ store[InterfacePath(obj)] = NoFile

\* The step of p in which load() is called: the call ends with it; no lock, no
\* function, no save(); an error of load() is the error of the call, and the
\* cache is as before.
LoadEndsCall(p) ==
    (Pc(p) = "load" /\ StepOf(p)) =>
    LET n == Top(p).node
        depth == Len(stack[p])
        last == trace'[p][Len(trace'[p])] IN
    /\ Len(stack'[p]) = depth - 1
    /\ UNCHANGED <<store, marker, flockOwner, createdBy, fl>>
    /\ last.ran = ThisCall(p).ran /\ last.saves = ThisCall(p).saves
    /\ LoadRaises(objs[n]) =>
        /\ cache' = cache
        /\ IF depth = 1
           THEN last.status = "raised" /\ last.exc = Raised("FileNotFoundError", n)
           ELSE /\ stack'[p][depth - 1].exc = Raised("FileNotFoundError", n)
                /\ stack'[p][depth - 1].pc = "release"

\* C21: a call whose name is not cached and whose artifact exists takes the load
\* path: load() only, no lock, no argument node, no function, no save(); when
\* load() raises, the error reaches the caller, the function is still not
\* invoked and the cache gets no entry.
C21_LoadPathOnly ==
    [][\A p \in Procs : FoundGoesToLoad(p) /\ LoadEndsCall(p)]_vars

C21_Witness ==
    /\ Len(trace["p1"]) >= 1
    /\ LET call == trace["p1"][Len(trace["p1"])] IN
        /\ call.status = "raised"
        /\ call.exc[1] = "FileNotFoundError"
        /\ \A n \in ObjIds : call.ran[n] = 0 /\ call.saves[n] = 0
    /\ cache["p1"] = <<>>

----------------------------------------------------------------------------
LastOf(p) == trace'[p][Len(trace'[p])]
TopAfter(p) == stack'[p][Len(stack[p])]

\* The step of p in which the function of the top frame is invoked.
FuncStep(p) == Pc(p) = "args" /\ NextNodeArg(Top(p)) = 0 /\ StepOf(p)

\* The step of p in which save() is called.
SaveStep(p) == Pc(p) = "save" /\ StepOf(p)

\* The step of p in which a call that took the compute path ends.
LeaveStep(p) ==
    /\ Pc(p) \in {"release", "unlink"}
    /\ Len(stack'[p]) = Len(stack[p]) - 1

\* None is not saved, anything else is.
SavedUnlessNone(p) ==
    /\ FuncStep(p) =>
        /\ TopAfter(p).exc = NoExc =>
                TopAfter(p).pc = IF TopAfter(p).data = None THEN "release" ELSE "save"
        /\ LastOf(p).saves = ThisCall(p).saves
        /\ cache' = cache /\ store' = store
    /\ SaveStep(p) =>
        /\ LastOf(p).saves = [ThisCall(p).saves EXCEPT ![Top(p).node] = @ + 1]
        /\ LastOf(p).ran = ThisCall(p).ran
        /\ TopAfter(p).pc = "release"
        /\ cache' = cache

\* The cache of p after the step is the cache before it, with data under name.
CacheGot(p, name, data) ==
    /\ DOMAIN cache'[p] = DOMAIN cache[p] \cup {name}
    /\ \A k \in DOMAIN cache'[p] : cache'[p][k] = IF k = name THEN data ELSE cache[p][k]

\* The evaluate() of the user returns what the function returned.
ReturnsData(p) ==
    (LeaveStep(p) /\ Len(stack[p]) = 1 /\ Top(p).exc = NoExc) =>
        LastOf(p).status = "returned" /\ LastOf(p).value = Top(p).data

\* C22, as stated: None is returned, not saved and not cached; every other
\* result is saved once and is cached exactly when cache_data is true.
C22_CachedIffCacheData ==
    [][\A p \in Procs :
        /\ SavedUnlessNone(p)
        /\ ReturnsData(p)
        /\ LeaveStep(p) =>
            IF Top(p).data # None /\ objs[Top(p).node].backend.cache_data
            THEN CacheGot(p, objs[Top(p).node].name, Top(p).data)
            ELSE cache' = cache]_vars

\* C22, amended: None is returned, not saved and not cached; every other result
\* is saved once, and it is cached exactly when cache_data is true and neither
\* save() nor the release of the lock raised.
C22_CachedIffCacheDataAndSaved ==
    [][\A p \in Procs :
        /\ SavedUnlessNone(p)
        /\ ReturnsData(p)
        /\ LeaveStep(p) =>
            IF /\ Top(p).data # None
               /\ objs[Top(p).node].backend.cache_data
               /\ Top(p).exc = NoExc
               /\ LastOf(p).status # "raised"
            THEN CacheGot(p, objs[Top(p).node].name, Top(p).data)
            ELSE cache' = cache]_vars

C22_Witness ==
    \E p \in Procs :
        /\ Idle(p) /\ trace[p] # <<>>
        /\ LET call == trace[p][Len(trace[p])] IN
            /\ call.node = IdM
            /\ call.status = "returned" /\ call.value = None
            /\ call.ran[IdM] = 1 /\ call.saves[IdM] = 0
            /\ call.saves[IdL] = 1
            /\ objs[IdM].backend.cache_data
            /\ <<"M">> \notin DOMAIN cache[p]
            /\ <<"L">> \in DOMAIN cache[p]

----------------------------------------------------------------------------
\* Instance i holds its lock: it is locked, and what makes the lock is there,
\* the flock on the file it opened or the marker at its path.
HoldsLock(i) ==
    /\ fl[i].is_locked
    /\ IF locker = "flock"
       THEN FlockOf(World, fl[i].lock_file) = i
       ELSE marker[fl[i].lock_filename] # NoInode

\* The frames of the with block: arguments, function and save().
InWithBlock(p) == {d \in 1..Len(stack[p]) : stack[p][d].pc \in {"args", "save", "release"}}

\* Every keyword of the frame's node that is a NodeWrapper has its value.
ArgumentsReturned(frame) ==
    \A i \in 1..Len(objs[frame.node].kwargs) :
        IsNodeWrapper(objs[frame.node].kwargs[i].value) => frame.inputs[i].t = "value"

(* C23: on the compute path the function is invoked only after evaluate()  *)
(* of every argument node has returned, it is invoked while the lock of    *)
(* the node is held, and save() happens before that lock is released.      *)
C23_ArgumentsThenFunctionUnderLock ==
    /\ [](\A p \in Procs : \A d \in InWithBlock(p) : HoldsLock(<<p, d>>))
    /\ [][\A p \in Procs :
            /\ FuncStep(p) =>
                /\ ArgumentsReturned(Top(p))
                /\ LastOf(p).args[Top(p).node] = Top(p).inputs
                /\ HoldsLock(Inst(p))
                /\ UNCHANGED <<marker, flockOwner, fl>>
            /\ SaveStep(p) =>
                /\ HoldsLock(Inst(p))
                /\ UNCHANGED <<marker, flockOwner, fl>>]_vars

C23_Witness ==
    \E p \in Procs :
        /\ Len(stack[p]) = 1 /\ Top(p).node = IdM /\ Pc(p) = "release"
        /\ Top(p).exc = NoExc /\ Top(p).data # None
        /\ ThisCall(p).ran[IdL] = 1 /\ ThisCall(p).ran[IdM] = 1
        /\ ThisCall(p).saves[IdM] = 1
        /\ ThisCall(p).args[IdM][1].t = "value"
        /\ HoldsLock(Inst(p))

----------------------------------------------------------------------------
\* The lock file of the node of the top frame of p.
LockPathOf(p) == LockFilename(locker, InterfacePath(objs[Top(p).node]))

\* Instances of other processes that hold the lock p is about to take.
OtherHolders(p) ==
    {j \in DOMAIN fl : j[1] # p /\ fl[j].is_locked /\ fl[j].lock_filename = LockPathOf(p)}

\* The step of p in which the lock is tried: the flock of src/mldb/locker.py,
\* the os.open of src/locker.py.
AttemptStep(p) ==
    /\ Pc(p) = "flock" \/ (Pc(p) = "lock" /\ locker = "excl")
    /\ StepOf(p)

\* The call of the top frame of p ends in this step with the exception exc.
EndsRaising(p, exc) ==
    /\ Len(stack'[p]) = Len(stack[p]) - 1
    /\ IF Len(stack[p]) = 1
       THEN LastOf(p).status = "raised" /\ LastOf(p).exc = exc
       ELSE stack'[p][Len(stack[p]) - 1].exc = exc

(* C24: when another process holds the lock of a node whose artifact does  *)
(* not exist, evaluate() of the node raises FileLockExistsException at the *)
(* one attempt it makes: no function, no save, no cache entry, and the     *)
(* lock of the other process stays as it is.                               *)
C24_HeldLockFailsFast ==
    [][\A p \in Procs :
        (AttemptStep(p) /\ OtherHolders(p) # {}) =>
            /\ EndsRaising(p, Raised("FileLockExistsException", Top(p).node))
            /\ LastOf(p).ran = ThisCall(p).ran /\ LastOf(p).saves = ThisCall(p).saves
            /\ UNCHANGED <<store, cache, marker, flockOwner>>
            /\ \A j \in OtherHolders(p) : fl'[j] = fl[j]]_vars

----------------------------------------------------------------------------
\* The nodes that are arguments of node n.
ArgIds(n) ==
    {objs[n].kwargs[i].value.id :
        i \in {j \in 1..Len(objs[n].kwargs) : IsNodeWrapper(objs[n].kwargs[j].value)}}

\* What is left of an argument a that call c evaluated and saved: its artifact,
\* and its cache entry when its backend caches.
ArgumentKept(c, a) ==
    (CallOf(c).saves[a] = 1 /\ CallOf(c).exc[2] # a /\ JustFinished(c)) =>
        /\ objs[a].backend.kind # "volatile" => Exists(store, objs[a])
        /\ objs[a].backend.cache_data => objs[a].name \in DOMAIN cache[c[1]]

(* C25: when the evaluation of an argument node raises, evaluate() of the  *)
(* sink raises the same error, the function of the sink is not invoked,    *)
(* nothing is saved or cached for the sink, and what the arguments         *)
(* evaluated before it left in storage and in the cache stays.             *)
C25_ArgumentFailureReachesCaller ==
    /\ [](\A c \in CallIds : \A f \in FailedIn(c) \cap ArgIds(CallOf(c).node) :
            LET sink == CallOf(c).node IN
            /\ CallOf(c).status = "raised"
            /\ CallOf(c).exc = Raised("Exception", f)
            /\ CallOf(c).ran[sink] = 0 /\ CallOf(c).saves[sink] = 0
            /\ JustFinished(c) =>
                /\ ~Exists(store, objs[sink])
                /\ objs[sink].name \notin DOMAIN cache[c[1]]
            /\ \A a \in ArgIds(sink) : ArgumentKept(c, a))
    /\ [][\A p \in Procs :
            (LeaveStep(p) /\ Top(p).exc # NoExc) =>
                /\ EndsRaising(p, Top(p).exc)
                /\ Len(stack[p]) > 1 => stack'[p][Len(stack[p]) - 1].pc = "release"
                /\ LastOf(p).ran = ThisCall(p).ran /\ LastOf(p).saves = ThisCall(p).saves
                /\ UNCHANGED <<store, cache>>]_vars

C25_Witness ==
    \E c \in CallIds :
        /\ JustFinished(c)
        /\ CallOf(c).node = NodeId(<<"T">>)
        /\ CallOf(c).failed = {NodeId(<<"B">>)}
        /\ CallOf(c).status = "raised"
        /\ CallOf(c).saves[NodeId(<<"A">>)] = 1
        /\ Exists(store, objs[NodeId(<<"A">>)])
        /\ <<"A">> \in DOMAIN cache[c[1]]
        /\ <<"T">> \notin DOMAIN cache[c[1]]

----------------------------------------------------------------------------
\* Calls in which save() of node n raised.
SaveFailedIn(c) ==
    IF Finished(CallOf(c)) /\ CallOf(c).exc[1] = "TypeError" THEN {CallOf(c).exc[2]} ELSE {}

\* d is the evaluate() of node n that is made next after call c.
NextCallOn(c, d, n) ==
    /\ CallOf(d).seq = CallOf(c).seq + 1
    /\ CallOf(d).node = n
    /\ Finished(CallOf(d))

\* save() of the matplotlib interface is given something that is no Figure.
SaveRaises(p) ==
    /\ objs[Top(p).node].backend.kind = "matplotlib"
    /\ Top(p).data.type # "Figure"

----------------------------------------------------------------------------
\* The call that made this step was given a backend name that is not registered.
UnregisteredAsked == gres'.backend # NoBackendArg /\ gres'.backend \notin DOMAIN backends

\* The step is a make_node that raised.
MakeNodeFailed == gres'.op = "make_node" /\ gres'.raised # "none"

(* C27: a make_node that fails, because the name is registered, the backend *)
(* name is not, or the function is not callable, leaves graph.nodes,        *)
(* graph.backends and graph.default_backend as they were; and those are     *)
(* the calls that fail.                                                     *)
C27_FailedMakeNodeChangesNothing ==
    [][/\ MakeNodeFailed =>
            /\ nodes' = nodes /\ objs' = objs
            /\ backends' = backends /\ default_backend' = default_backend
       /\ gres'.op = "make_node" =>
            (MakeNodeFailed <=> (~gres'.callable \/ gres'.dup \/ UnregisteredAsked))]_vars

C27_Witness ==
    /\ gres.op = "make_node" /\ gres.raised = "KeyError"
    /\ gres.callable /\ ~gres.dup /\ gres.backend = "missing"
    /\ DOMAIN nodes = {<<"a">>, <<"b">>}
    /\ "missing" \notin DOMAIN backends

----------------------------------------------------------------------------
\* The graph is, in every part, the one that was built.
GraphAsBuilt == Graph = ProgramGraph(default_backend)

(* C28: evaluate() changes neither a node nor the graph: after any         *)
(* sequence of evaluate() calls the name, func, kwargs (the entries that   *)
(* are nodes included) and backend of every node, and nodes, backends and  *)
(* default_backend of the graph, are what they were.                       *)
C28_EvaluateLeavesGraph ==
    /\ []GraphAsBuilt
    /\ [][/\ objs' = objs /\ nodes' = nodes
          /\ backends' = backends /\ default_backend' = default_backend]_vars

C28_Witness ==
    \E c \in CallIds :
        /\ JustFinished(c) /\ CallOf(c).seq = MaxCalls
        /\ CallOf(c).node = IdS /\ Returned(CallOf(c))
        /\ CallOf(c).ran[IdL] = 1 /\ CallOf(c).ran[IdS] = 1
        /\ CallOf(c).args[IdS][1].t = "value"
        /\ objs[IdS].kwargs[1].value = NodeArg(IdL)
        /\ GraphAsBuilt

----------------------------------------------------------------------------
\* What evaluate() of a node may return: what its own function returns, or what
\* load() of its own backend gives for what is at its own path.
OwnValues(obj) ==
    {ReturnValue(obj.func, type) : type \in ReturnTypes(obj.backend)}
        \cup (IF obj.backend.kind = "matplotlib" THEN {PyTrue} ELSE {})
        \cup (IF obj.backend.kind = "pickle" THEN {Foreign(obj)} ELSE {})

(* C29: what n.evaluate() returns is the result of n's own function or the *)
(* value loaded from n's own artifact, also when another node has the name *)
(* of n.                                                                   *)
C29_OwnValueReturned ==
    \A c \in CallIds :
        Returned(CallOf(c)) => CallOf(c).value \in OwnValues(objs[CallOf(c).node])

----------------------------------------------------------------------------
(* C30: one process, alone, on a graph without cycles and with no lock     *)
(* marker at the start: no evaluate() raises FileLockExistsException,      *)
(* whatever the names of the nodes are.                                    *)
C30_NoConflictWithOwnArguments ==
    /\ \A c \in CallIds : CallOf(c).exc[1] # "FileLockExistsException"
    /\ \A p \in Procs : \A d \in 1..Len(stack[p]) :
            stack[p][d].exc[1] # "FileLockExistsException"

----------------------------------------------------------------------------
\* C31: the marker path is an injective function of the artifact path: two
\* instances for different artifacts never have the same marker, and an
\* acquire() is refused only when an instance for the same artifact holds
\* the lock.
RefusedByOther(c) ==
    /\ lres[c].op = "acquire"
    /\ lres[c].raised = "FileLockExistsException"

C31_MarkerInjective ==
    \A c \in DOMAIN fl, d \in DOMAIN fl :
        /\ (ArtifactOf(c) # ArtifactOf(d)) => (fl[c].lock_filename # fl[d].lock_filename)
        /\ (RefusedByOther(c) /\ fl[d].is_locked) => (ArtifactOf(d) = ArtifactOf(c))

----------------------------------------------------------------------------
\* The nodes that are arguments of node n, and the nodes n depends on.
ArgsOf(n) ==
    {objs[n].kwargs[i].value.id :
        i \in {j \in 1..Len(objs[n].kwargs) : IsNodeWrapper(objs[n].kwargs[j].value)}}

ArgsOfAll(S) == UNION {ArgsOf(n) : n \in S}

RECURSIVE DependsOn(_, _)
DependsOn(n, k) ==
    IF k = 0 THEN {} ELSE ArgsOf(n) \cup ArgsOfAll(DependsOn(n, k - 1))

OnCycle(n) == n \in DependsOn(n, Len(objs))

\* evaluate() of node n runs into a cycle.
MeetsCycle(n) == OnCycle(n) \/ \E m \in DependsOn(n, Len(objs)) : OnCycle(m)

\* A node is twice on the stack of a process only with its second call on
\* top and not past the acquire() of its lock.
ReentryStopsAtLock(p) ==
    \A i \in 1..Len(stack[p]), j \in 1..Len(stack[p]) :
        (i < j /\ stack[p][i].node = stack[p][j].node) =>
            /\ j = Len(stack[p])
            /\ stack[p][j].pc \in {"enter", "lock", "flock"}

\* A finished call that ran into the cycle raised: FileLockExistsException
\* from the node that was entered again, unless something outside the cycle
\* failed first; no function of a node on the cycle was invoked.
CycleCallRaised(c) ==
    (Finished(CallOf(c)) /\ MeetsCycle(CallOf(c).node)) =>
        /\ CallOf(c).status = "raised"
        /\ \A n \in ObjIds : OnCycle(n) => CallOf(c).ran[n] = 0
        /\ \/ /\ CallOf(c).exc[1] = "FileLockExistsException"
              /\ OnCycle(CallOf(c).exc[2])
           \/ ~OnCycle(CallOf(c).exc[2])

\* C32: on a graph with a cycle through nodes that have no artifact and are
\* not cached, every evaluate() ends; a node entered again while the call
\* holds its lock gets FileLockExistsException and goes no deeper, and when
\* the call has ended no lock is held and no marker it made is left.
C32_CycleTerminates ==
    /\ \A p \in Procs : (~Idle(p)) ~> Idle(p)
    /\ [](/\ \A p \in Procs : ReentryStopsAtLock(p)
          /\ \A c \in CallIds : CycleCallRaised(c)
          /\ \A i \in DOMAIN fl :
                ~Live(i) => HoldsNothing(i) /\ MarkersCreatedBy(i) = {})

C32_Witness ==
    \E c \in CallIds :
        /\ Finished(CallOf(c))
        /\ OnCycle(CallOf(c).node)
        /\ CallOf(c).exc = Raised("FileLockExistsException", CallOf(c).node)
        /\ \A q \in DOMAIN marker : marker[q] = NoInode

----------------------------------------------------------------------------
\* What load() gives for the artifact of a node: the pickled object, and True
\* for a figure.
StoredValue(obj) ==
    IF obj.backend.kind = "matplotlib" THEN PyTrue ELSE store[InterfacePath(obj)]

\* The evaluate() of the running graph.evaluate() whose value is under key k.
SweepCall(k) == trace["p1"][gres.calls[k]]

\* C33: graph.evaluate(force=True) does not skip a node whose artifact
\* exists and does not recompute it: no function is invoked and nothing is
\* saved by the evaluate() of such a node, and in the first graph.evaluate()
\* of a process, when no node is cached, the value in the returned mapping
\* is the one load() gives.
C33_ForceLoadsExisting ==
    (gres.op = "evaluate" /\ gres.force) =>
        /\ gres.skipped = {}
        /\ \A n \in Passed \cap gres.existed : objs[n].name \in DOMAIN gres.evaluations
        /\ \A k \in DOMAIN gres.evaluations :
                nodes[k] \in gres.existed =>
                    /\ SweepCall(k).ran = Zero
                    /\ SweepCall(k).saves = Zero
                    /\ gres.sweep = 1 => gres.evaluations[k] = StoredValue(objs[nodes[k]])

C33_Witness ==
    /\ gres.op = "evaluate" /\ gres.force /\ gres.sweep = 1
    /\ gres.status = "returned"
    /\ gres.existed = {IdL, IdM}
    /\ gres.evaluations[<<"M">>] = StoredValue(objs[IdM])
    /\ gres.evaluations[<<"M">>] # None
    /\ SweepCall(<<"M">>).ran = Zero

----------------------------------------------------------------------------
\* The default names a registered backend, and 'none' is the volatile one.
BackendsWellFormed ==
    /\ default_backend \in DOMAIN backends
    /\ "none" \in DOMAIN backends
    /\ backends["none"] = VolatileBackend

\* No step removes a backend or puts another in its place.
BackendsKept ==
    \A b \in DOMAIN backends : b \in DOMAIN backends' /\ backends'[b] = backends[b]

\* C34: after any add_backend, set_default_backend and make_node calls,
\* failed or not, default_backend is a key of backends, 'none' is bound to
\* the volatile backend, and no backend entry is ever removed or replaced.
C34_BackendsWellFormed == []BackendsWellFormed /\ [][BackendsKept]_vars

C34_Witness ==
    /\ gres.op = "add_backend" /\ gres.raised = "KeyError" /\ gres.flag
    /\ DOMAIN backends = {"none", "pkl", "png"}
    /\ backends["pkl"] = PNGBackend(StoreDir)
    /\ default_backend = "png"
    /\ objs # <<>>

----------------------------------------------------------------------------
\* A step that changes the cache of p is the end of a call of p on a node of
\* a backend with cache_data, after its function or load() gave a value that
\* is not None; that value is put under the name of the node, and nothing
\* else changes.
EntryEarned(p) ==
    (cache'[p] # cache[p]) =>
        /\ ~Idle(p)
        /\ objs[Top(p).node].backend.cache_data
        /\ Pc(p) \in {"release", "unlink", "load"}
        /\ Len(stack'[p]) = Len(stack[p]) - 1
        /\ LET obj == objs[Top(p).node]
               data == IF Pc(p) = "load" THEN StoredValue(obj) ELSE Top(p).data
           IN data # None /\ CacheGot(p, obj.name, data)

\* No step of a call on a node of the volatile backend changes the cache.
VolatileAddsNothing(p) ==
    (~Idle(p) /\ objs[Top(p).node].backend.kind = "volatile" /\ StepOf(p)) =>
        cache' = cache

\* Every name in a cache is the name of a node of a backend with cache_data,
\* and its value is not None.
EntriesEarned ==
    \A p \in Procs : \A k \in DOMAIN cache[p] :
        /\ cache[p][k] # None
        /\ \E n \in ObjIds : objs[n].name = k /\ objs[n].backend.cache_data

\* C35: a name is in the cache only if an evaluate() of a node with that
\* name, on a backend whose cache_data is true, produced or loaded a value
\* other than None; evaluating a node of the volatile backend never adds an
\* entry.
C35_CacheEntriesEarned ==
    /\ []EntriesEarned
    /\ [][\A p \in Procs : EntryEarned(p) /\ VolatileAddsNothing(p)]_vars

C35_Witness ==
    /\ default_backend = "pkl"
    /\ DOMAIN cache["p1"] = {<<"L">>, <<"M">>}
    /\ Len(trace["p1"]) = 1
    /\ trace["p1"][1].node = IdM
    /\ trace["p1"][1].ran[IdL] = 1
    /\ Returned(trace["p1"][1])

----------------------------------------------------------------------------
\* The node made with cache=False, and the node it is an argument of.
IdV == NodeId(<<"a">>)
IdU == NodeId(<<"u">>)

\* C36: a node made with cache=False is on the volatile backend whatever
\* backend was asked for, no artifact of it is ever there, and every
\* evaluate() that reaches it, directly or as the argument of a node that is
\* computed, invokes its function.
C36_UncachedAlwaysRecomputed ==
    /\ objs[IdV].backend = VolatileBackend
    /\ store[InterfacePath(objs[IdV])] = NoFile
    /\ \A c \in CallIds :
        /\ (Finished(CallOf(c)) /\ CallOf(c).node = IdV) => CallOf(c).ran[IdV] = 1
        /\ CallOf(c).ran[IdU] = 1 => CallOf(c).ran[IdV] = 1

----------------------------------------------------------------------------
\* release() or purge() by an instance that does not hold the lock, while
\* another instance holds it.
EndedByNonHolder(c) ==
    /\ UseRelease(c) \/ UsePurge(c)
    /\ ~fl[c].is_locked
    /\ HeldByOther(c)

\* C37: only the holder ends a lock: release() or purge() by an instance that
\* does not hold it leaves the marker of the holder where it is, and while
\* the holder holds, the acquire() of every other instance is refused.
C37_OnlyHolderEndsLock ==
    [][\A c \in LockClients :
        /\ EndedByNonHolder(c) => marker' = marker
        /\ (UseAcquire(c, TRUE) /\ HeldByOther(c)) =>
                /\ lres'[c].raised = "FileLockExistsException"
                /\ ~fl'[c].is_locked]_vars

====
